---- MODULE Spec2Model ----
(***************************************************************************)
(* Converso: PDF structural analysis (utils/pdf_analyzer.py) and the PDF   *)
(* to DOCX converter (conversores/docx_converter.py) as state machines.    *)
(*                                                                         *)
(* Text is a sequence of one-character strings.  Coordinates, sizes and    *)
(* page heights are integers (points); a margin ratio r is carried as the  *)
(* integer percentage 100*r and every comparison the code makes on floats  *)
(* is made exactly, after multiplying both sides by the denominators.      *)
(* Optional[int] is a sequence: <<>> for None, <<v>> for the value v.      *)
(***************************************************************************)
EXTENDS Integers, Sequences, FiniteSets, TLC

VARIABLES
    analyzer,        \* PDFAnalyzer fields: header_margin_ratio, footer_margin_ratio (percent)
    doc,             \* the PDF handed to the analyzer: a sequence of pages (height, spans)
    range,           \* analyze_document's (start_page, end_page) arguments, 0-based
    page_analysis,   \* results of _analyze_page calls made directly on pages of doc
    runs,            \* results of successive analyze_document calls on doc
    options,         \* DocxConverter.options: start_page, end_page
    fs,              \* the files convert() works on: the input PDF, the output directory and file
    pdf,             \* the pages of the input PDF, as far as is_scanned_page reads them
    pc,              \* the position of the running DocxConverter.convert call
    frame,           \* the locals of convert and of the _convert_* method it is in
    result,          \* DocxConverter._result
    raised,          \* the exception convert() raised to its caller
    handles,         \* every document handle opened so far, with its number of close() calls
    handed,          \* every page index given to a fitz page array or to pdf2docx
    emitted,         \* the source pages put into the output document, in order
    word_doc,        \* the python-docx document _convert_scanned / _convert_mixed builds
    flow,            \* a PdfConverter.convert call: its input, its locals, the PDF it lays out
    ocr_engine,      \* the module global _ocr_engine: 0 for None, else the engine it holds
    workers,         \* the conversions running on worker threads, each inside ocr_page
    constructed,     \* the number of RapidOCR engines constructed so far
    accesses,        \* the workers that have read and that have written _ocr_engine
    unit,            \* a call of one method on its own: the method, its arguments, its result
    gui,             \* MainCard: is_converting, the Tk after() queue, the conversion threads
    history_file,    \* ~/.conversor/history.json: absent, unparseable, or a list of entries
    calls            \* the add_entry / clear_history calls made so far, for the properties

anVars == <<analyzer, doc, range, page_analysis, runs>>
cvVars == <<options, fs, pdf, pc, frame, result, raised, handles, handed, emitted, word_doc>>
flVars == <<flow>>
thVars == <<ocr_engine, workers, constructed, accesses>>
unVars == <<unit>>
guVars == <<gui, history_file, calls>>
notAnVars == <<cvVars, flVars, thVars, unVars, guVars>>
notCvVars == <<anVars, flVars, thVars, unVars, guVars>>
notFlVars == <<anVars, cvVars, thVars, unVars, guVars>>
notThVars == <<anVars, cvVars, flVars, unVars, guVars>>
notUnVars == <<anVars, cvVars, flVars, thVars, guVars>>
notGuVars == <<anVars, cvVars, flVars, thVars, unVars>>
vars == <<analyzer, doc, range, page_analysis, runs,
          options, fs, pdf, pc, frame, result, raised, handles, handed, emitted, word_doc,
          flow, ocr_engine, workers, constructed, accesses, unit,
          gui, history_file, calls>>

(***************************************************************************)
(* Bounds of the model.                                                    *)
(***************************************************************************)
MaxSpans == 2          \* spans on a page whose geometry is explored
MaxDocPages == 3       \* pages of a document whose texts are explored
MaxNumbered == 10      \* largest N of the "Page i of N" documents
MaxRuns == 2           \* analyze_document calls on the same document
MaxPdfPages == 3       \* pages of a PDF given to the converter
MaxContentPages == 2   \* pages of a PDF whose page contents are explored in every combination

None == <<>>
Some(v) == <<v>>
IsNone(o) == o = <<>>
Val(o) == o[1]

NoFrame == [start |-> None, end |-> None, doc_type |-> "", ret |-> "",
            pages |-> <<>>, native_pages |-> <<>>, scanned_pages |-> <<>>,
            i |-> 0, doc |-> 0, mixed_doc |-> 0,
            is_scanned |-> <<>>, pending |-> [exc |-> "", from |-> ""]]
NoResult == [set |-> FALSE, success |-> FALSE, pages_converted |-> 0,
             images_extracted |-> 0, warnings |-> <<>>, errors |-> <<>>]
NoException == [exc |-> "", from |-> ""]
\* no python-docx document yet
NoWordDoc == [sections |-> <<>>, body |-> <<>>]
\* ConversionOptions() as far as the converters read it
DefaultOptions == [start_page |-> None, end_page |-> None,
                   header_mode |-> "convert_to_header", footer_mode |-> "convert_to_header",
                   extract_images |-> TRUE]

\* no PdfConverter at work
NoFlow == [pc |-> "idle", ext |-> "", exists |-> FALSE, readable |-> FALSE,
           out_dir |-> "absent", out_writable |-> FALSE, content |-> <<>>, tables |-> <<>>,
           i |-> 0, current_y |-> 0, line_height |-> 0, pages |-> 0, current_page |-> 0,
           drawn |-> <<>>, out_file |-> "absent", result |-> NoResult,
           raised |-> NoException]
PdfConverterIdle == flow = NoFlow

\* no method called on its own
NoUnit == [fn |-> "", args |-> <<>>, returned |-> FALSE, ret |-> <<>>]
UnitIdle == unit = NoUnit

\* the window with no file selected and no conversion started; no history file; no call made
NoGui == [selected_file |-> FALSE, is_converting |-> FALSE, clicks |-> 0,
          after |-> <<>>, threads |-> <<>>, finished |-> <<>>]
NoHistoryFile == [state |-> "absent", entries |-> <<>>]
NoCalls == [n |-> 0, added |-> <<>>, last |-> "", cleared |-> FALSE]
GuiIdle == gui = NoGui /\ history_file = NoHistoryFile /\ calls = NoCalls

\* no worker thread, the module ocr_engine just imported
NoAccesses == [reads |-> {}, writes |-> {}]
WorkersIdle ==
    /\ ocr_engine = 0
    /\ workers = <<>>
    /\ constructed = 0
    /\ accesses = NoAccesses

\* no analyzer at work
AnalyzerIdle ==
    /\ analyzer = [header_margin_ratio |-> 10, footer_margin_ratio |-> 10]
    /\ doc = <<>>
    /\ range = <<0, None>>
    /\ page_analysis = <<>>
    /\ runs = <<>>

\* no converter at work
ConverterIdle ==
    /\ options = DefaultOptions
    /\ fs = [pdf_exists |-> FALSE, pdf_valid |-> FALSE, out_dir |-> "absent",
             out_writable |-> TRUE, out_file |-> "absent"]
    /\ pdf = <<>>
    /\ pc = "idle"
    /\ frame = NoFrame
    /\ result = NoResult
    /\ raised = NoException
    /\ handles = <<>>
    /\ handed = <<>>
    /\ emitted = <<>>
    /\ word_doc = NoWordDoc

(***************************************************************************)
(* Characters and Python's str / re primitives.                            *)
(***************************************************************************)
Digits == {"0", "1", "2", "3", "4", "5", "6", "7", "8", "9"}
Lower == {"a", "g", "e", "o", "f", "v", "x", "t", "c"}
Upper == {"P", "T", "U", "N", "M", "H", "C", "F"}
Letters == Lower \cup Upper
Whitespace == {" ", "\n"}
IsDigit(c) == c \in Digits
\* \w of the re module: letters, digits and the underscore
IsWord(c) == c \in Letters \cup Digits \cup {"_"}
IsSpace(c) == c \in Whitespace

DigitVal(c) ==
    CASE c = "0" -> 0 [] c = "1" -> 1 [] c = "2" -> 2 [] c = "3" -> 3
      [] c = "4" -> 4 [] c = "5" -> 5 [] c = "6" -> 6 [] c = "7" -> 7
      [] c = "8" -> 8 [] c = "9" -> 9

DigitChar(d) == <<"0", "1", "2", "3", "4", "5", "6", "7", "8", "9">>[d + 1]

\* str(n) for 0 <= n
RECURSIVE IntToText(_)
IntToText(n) == IF n < 10 THEN <<DigitChar(n)>>
                ELSE IntToText(n \div 10) \o <<DigitChar(n % 10)>>

\* int(s) for a run of digits s
RECURSIVE ParseInt(_)
ParseInt(s) == IF s = <<>> THEN 0
               ELSE 10 * ParseInt(SubSeq(s, 1, Len(s) - 1)) + DigitVal(s[Len(s)])

\* str.strip(): leading and trailing whitespace removed
RECURSIVE LStrip(_)
LStrip(t) == IF t # <<>> /\ IsSpace(t[1]) THEN LStrip(Tail(t)) ELSE t
RECURSIVE RStrip(_)
RStrip(t) == IF t # <<>> /\ IsSpace(t[Len(t)]) THEN RStrip(SubSeq(t, 1, Len(t) - 1)) ELSE t
Strip(t) == RStrip(LStrip(t))

\* " ".join(parts) and "\n".join(parts)
RECURSIVE Join(_, _)
Join(sep, parts) ==
    IF parts = <<>> THEN <<>>
    ELSE IF Len(parts) = 1 THEN parts[1]
    ELSE parts[1] \o <<sep>> \o Join(sep, Tail(parts))

\* last index of the maximal run of digits that starts at i
RECURSIVE RunEnd(_, _)
RunEnd(t, i) == IF i < Len(t) /\ IsDigit(t[i + 1]) THEN RunEnd(t, i + 1) ELSE i

\* \b at the left of position i / at the right of position j (t[i], t[j] word characters)
BoundaryBefore(t, i) == i = 1 \/ ~IsWord(t[i - 1])
BoundaryAfter(t, j) == j = Len(t) \/ ~IsWord(t[j + 1])

\* (a variant of NumMatchAt for \b\d\b: one digit only)
NumMatchOneDigit(t, i) ==
    /\ IsDigit(t[i])
    /\ BoundaryBefore(t, i)
    /\ BoundaryAfter(t, i)

\* a match of \b\d+\b starts at i: \d+ is greedy and a shorter run never ends on a \b
NumMatchAt(t, i) ==
    /\ IsDigit(t[i])
    /\ BoundaryBefore(t, i)
    /\ BoundaryAfter(t, RunEnd(t, i))

NUM == <<"{", "N", "U", "M", "}">>

\* re.sub(r"\b\d+\b", "{NUM}", t), scanning from position i
RECURSIVE SubNumFrom(_, _)
SubNumFrom(t, i) ==
    IF i > Len(t) THEN <<>>
    ELSE IF NumMatchAt(t, i) THEN NUM \o SubNumFrom(t, RunEnd(t, i) + 1)
    ELSE <<t[i]>> \o SubNumFrom(t, i + 1)

SubNum(t) == SubNumFrom(t, 1)

\* re.sub(r"\s+", " ", t)
RECURSIVE CollapseSpaceFrom(_, _)
CollapseSpaceFrom(t, i) ==
    IF i > Len(t) THEN <<>>
    ELSE IF IsSpace(t[i])
         THEN IF i > 1 /\ IsSpace(t[i - 1]) THEN CollapseSpaceFrom(t, i + 1)
              ELSE <<" ">> \o CollapseSpaceFrom(t, i + 1)
    ELSE <<t[i]>> \o CollapseSpaceFrom(t, i + 1)

CollapseSpace(t) == CollapseSpaceFrom(t, 1)

\* re.findall(r"\b(\d+)\b", t), scanning from position i
RECURSIVE FindNumsFrom(_, _)
FindNumsFrom(t, i) ==
    IF i > Len(t) THEN <<>>
    ELSE IF NumMatchAt(t, i)
         THEN <<SubSeq(t, i, RunEnd(t, i))>> \o FindNumsFrom(t, RunEnd(t, i) + 1)
    ELSE FindNumsFrom(t, i + 1)

FindNums(t) == FindNumsFrom(t, 1)

(***************************************************************************)
(* PDFAnalyzer (utils/pdf_analyzer.py).                                    *)
(*                                                                         *)
(* A page is [height, spans]; spans are the spans of the page's text       *)
(* blocks in extraction order, each [text, x0, y0, y1, size].  A TextBlock *)
(* carries, beside the fields the analyzer reads, the index `span` of the  *)
(* span it was built from.                                                 *)
(***************************************************************************)
Abs(n) == IF n < 0 THEN 0 - n ELSE n

\* (a variant of Region whose header test is not strict)
RegionHeaderOnTie(hp, fp, height, y0, y1) ==
    IF (y0 + y1) * 100 <= 2 * height * hp THEN "header"
    ELSE IF (y0 + y1) * 100 > 2 * height * (100 - fp) THEN "footer"
    ELSE "body"

\* the if / elif / else on y_center of _analyze_page; hp, fp are the margin ratios in percent
Region(hp, fp, height, y0, y1) ==
    IF (y0 + y1) * 100 < 2 * height * hp THEN "header"
    ELSE IF (y0 + y1) * 100 > 2 * height * (100 - fp) THEN "footer"
    ELSE "body"

\* the TextBlocks _analyze_page builds, in span order: spans whose stripped text is empty are skipped
RECURSIVE TextBlocksFrom(_, _, _)
TextBlocksFrom(an, page, i) ==
    IF i > Len(page.spans) THEN <<>>
    ELSE LET sp == page.spans[i]
             text == Strip(sp.text)
         IN  IF text = <<>> THEN TextBlocksFrom(an, page, i + 1)
             ELSE <<[text |-> text, x0 |-> sp.x0, y0 |-> sp.y0, y1 |-> sp.y1,
                     font_size |-> sp.size, span |-> i,
                     block_type |-> Region(an.header_margin_ratio, an.footer_margin_ratio,
                                           page.height, sp.y0, sp.y1)]>>
                  \o TextBlocksFrom(an, page, i + 1)

\* sorted(blocks, key=lambda b: (b.y0, b.x0)): a stable sort
KeyLE(a, b) == a.y0 < b.y0 \/ (a.y0 = b.y0 /\ a.x0 <= b.x0)

RECURSIVE InsertSorted(_, _)
InsertSorted(b, s) ==
    IF s = <<>> THEN <<b>>
    ELSE IF KeyLE(s[Len(s)], b) THEN Append(s, b)
    ELSE Append(InsertSorted(b, SubSeq(s, 1, Len(s) - 1)), s[Len(s)])

RECURSIVE SortBlocks(_)
SortBlocks(blocks) ==
    IF blocks = <<>> THEN <<>>
    ELSE InsertSorted(blocks[Len(blocks)], SortBlocks(SubSeq(blocks, 1, Len(blocks) - 1)))

FlushLine(lines, cur) == IF cur # <<>> THEN Append(lines, Join(" ", cur)) ELSE lines

\* the loop of _blocks_to_text over sorted_blocks, from block i
RECURSIVE BlocksToTextFrom(_, _, _, _, _)
BlocksToTextFrom(s, i, lines, cur, cy) ==
    IF i > Len(s) THEN Join("\n", FlushLine(lines, cur))
    ELSE LET b == s[i]
         IN  IF cy < 0 THEN BlocksToTextFrom(s, i + 1, lines, Append(cur, b.text), b.y0)
             ELSE IF 2 * Abs(b.y0 - cy) < b.font_size
                  THEN BlocksToTextFrom(s, i + 1, lines, Append(cur, b.text), cy)
             ELSE BlocksToTextFrom(s, i + 1, FlushLine(lines, cur), <<b.text>>, b.y0)

BlocksToText(blocks) ==
    IF blocks = <<>> THEN <<>>
    ELSE BlocksToTextFrom(SortBlocks(blocks), 1, <<>>, <<>>, -1)

OfType(blocks, t) == SelectSeq(blocks, LAMBDA b : b.block_type = t)

AnalyzePage(an, page, page_num) ==
    LET blocks == TextBlocksFrom(an, page, 1)
    IN  [page_num      |-> page_num,
         height        |-> page.height,
         header_blocks |-> OfType(blocks, "header"),
         footer_blocks |-> OfType(blocks, "footer"),
         body_blocks   |-> OfType(blocks, "body"),
         header_text   |-> BlocksToText(OfType(blocks, "header")),
         footer_text   |-> BlocksToText(OfType(blocks, "footer")),
         body_text     |-> BlocksToText(OfType(blocks, "body"))]

\* the normalisation _find_common_pattern applies to each text
Normalize(text) == Strip(CollapseSpace(SubNum(text)))

MapNormalize(texts) == [i \in DOMAIN texts |-> Normalize(texts[i])]

CountOf(normalized, p) == Cardinality({i \in DOMAIN normalized : normalized[i] = p})

\* (a variant of MostCommon in which any of the tied patterns may come first)
AnyMostCommon(normalized) ==
    {normalized[k] : k \in {k \in DOMAIN normalized :
        \A j \in DOMAIN normalized :
            CountOf(normalized, normalized[j]) <= CountOf(normalized, normalized[k])}}

\* the values Counter(normalized).most_common(1)[0][0] can take: a Counter iterates in
\* insertion order and max() keeps the first of the elements with the largest count,
\* so there is one value whatever the ties
MostCommon(normalized) ==
    {normalized[k] : k \in {k \in DOMAIN normalized :
        /\ \A j \in DOMAIN normalized :
              CountOf(normalized, normalized[j]) <= CountOf(normalized, normalized[k])
        /\ \A j \in 1..(k - 1) :
              CountOf(normalized, normalized[j]) < CountOf(normalized, normalized[k])}}

\* (a variant of Accepted that accepts any frequency)
AcceptAny(count, n) == count >= 1

\* most_common[0][1] >= len(texts) * 0.5
Accepted(count, n) == 2 * count >= n

\* the values _find_common_pattern(texts) can return
FindCommonPattern(texts) ==
    IF texts = <<>> THEN {<<>>}
    ELSE LET normalized == MapNormalize(texts)
         IN  {IF Accepted(CountOf(normalized, p), Len(texts)) THEN p ELSE <<>> :
                 p \in MostCommon(normalized)}

\* numbers of _has_page_numbers: int of the last \b\d+\b match of each footer that has one
RECURSIVE LastNumbers(_)
LastNumbers(footers) ==
    IF footers = <<>> THEN <<>>
    ELSE LET matches == FindNums(footers[1])
         IN  (IF matches # <<>> THEN <<ParseInt(matches[Len(matches)])>> ELSE <<>>)
             \o LastNumbers(Tail(footers))

Sequential(numbers) ==
    Cardinality({i \in 2..Len(numbers) : numbers[i] = numbers[i - 1] + 1})

HasPageNumbers(footers) ==
    LET numbers == LastNumbers(footers)
    IN  IF Len(numbers) < 2 THEN FALSE
        ELSE 10 * Sequential(numbers) >= 6 * Len(numbers)

NonEmpty(texts) == SelectSeq(texts, LAMBDA t : t # <<>>)

HeaderTexts(pages) == NonEmpty([i \in DOMAIN pages |-> pages[i].header_text])
FooterTexts(pages) == NonEmpty([i \in DOMAIN pages |-> pages[i].footer_text])

\* the analyses _detect_common_headers_footers can leave, from a fresh DocumentAnalysis
DetectCommonHeadersFooters(pages) ==
    IF Len(pages) < 2
    THEN {[pages |-> pages, common_header |-> <<>>, common_footer |-> <<>>,
           detected_page_numbers |-> FALSE]}
    ELSE {[pages |-> pages,
           common_header |-> h,
           common_footer |-> f,
           detected_page_numbers |->
               IF FooterTexts(pages) # <<>> THEN HasPageNumbers(FooterTexts(pages)) ELSE FALSE] :
            h \in FindCommonPattern(HeaderTexts(pages)),
            f \in FindCommonPattern(FooterTexts(pages))}

Min(a, b) == IF a < b THEN a ELSE b

\* the page numbers analyze_document visits: range(start_page, min(end, len(doc)))
AnalyzedPageNums(d, start_page, end_page) ==
    LET end == IF IsNone(end_page) THEN Len(d) ELSE Val(end_page)
        stop == Min(end, Len(d))
    IN  [k \in 1..(IF stop > start_page THEN stop - start_page ELSE 0) |-> start_page + k - 1]

\* the analyses analyze_document(pdf, start_page, end_page) can return
AnalyzeDocument(an, d, start_page, end_page) ==
    LET nums == AnalyzedPageNums(d, start_page, end_page)
        pages == [k \in DOMAIN nums |-> AnalyzePage(an, d[nums[k] + 1], nums[k])]
    IN  DetectCommonHeadersFooters(pages)

(***************************************************************************)
(* Inputs of the analyzer.                                                 *)
(***************************************************************************)
SeqsUpTo(S, n) == UNION {[1..k -> S] : k \in 0..n}

\* margin ratios in percent: the defaults, the values of the options test, and two bands
\* that meet in the middle of the page
RatioChoices == {<<10, 10>>, <<15, 12>>, <<50, 50>>}

\* (y0, y1) of a span on a page 100 points high: centres 4, 10, 10.5, 50, 90, 90.5, 97
GeoYs == {<<2, 6>>, <<8, 12>>, <<9, 12>>, <<40, 60>>, <<88, 92>>, <<88, 93>>, <<95, 99>>}
GeoTexts == {<<"a">>, <<" ">>}
GeoSpans == {[text |-> t, x0 |-> 10, y0 |-> y[1], y1 |-> y[2], size |-> 4] :
                t \in GeoTexts, y \in GeoYs}
GeoDocs == {<<[height |-> 100, spans |-> sp]>> : sp \in SeqsUpTo(GeoSpans, MaxSpans)}

\* a page whose header line is the spans hdr and whose footer line is the spans ftr,
\* laid out left to right, around one body span
RECURSIVE LineSpans(_, _, _, _)
LineSpans(texts, i, y0, y1) ==
    IF i > Len(texts) THEN <<>>
    ELSE <<[text |-> texts[i], x0 |-> 10 * i, y0 |-> y0, y1 |-> y1, size |-> 4]>>
         \o LineSpans(texts, i + 1, y0, y1)

TextPage(hdr, ftr) ==
    [height |-> 100,
     spans  |-> LineSpans(hdr, 1, 2, 6) \o LineSpans(<<<<"a">>>>, 1, 48, 52)
                \o LineSpans(ftr, 1, 94, 98)]

tT == <<"T">>
tU == <<"U">>
tP == <<"P">>
tP1 == <<"P", " ", "1">>
tP2 == <<"P", " ", "2", " ">>
tv1 == <<"v", "1">>
tv2 == <<"v", "2">>

\* (header spans, footer spans) of the pages documents are made of
PageChoices ==
    { <<<<tT>>, <<tP1>>>>,  <<<<tT>>, <<tP2>>>>,  <<<<tU>>, <<tP, <<"3">>>>>>,
      <<<<>>, <<tv1>>>>,    <<<<tU>>, <<tv2>>>>,  <<<<tT>>, <<>>>> }

TextDocs == {[i \in DOMAIN c |-> TextPage(c[i][1], c[i][2])] :
                c \in SeqsUpTo(PageChoices, MaxDocPages) \ {<<>>}}

\* the footer "Page i of N"
PageOf(i, n) == <<"P", "a", "g", "e", " ">> \o IntToText(i) \o <<" ", "o", "f", " ">>
                \o IntToText(n)

\* the N-page document whose page i has the footer "Page i of N"
NumberedDoc(n) == [i \in 1..n |-> TextPage(<<>>, <<PageOf(i, n)>>)]
NumberedDocs == {NumberedDoc(n) : n \in 1..MaxNumbered}

\* (start_page, end_page) given to analyze_document: the defaults, a later start, an early end
RangeChoices == {<<0, None>>, <<1, None>>, <<0, Some(1)>>}

(***************************************************************************)
(* _analyze_page on the pages of a document.                               *)
(***************************************************************************)
InitRegion ==
    /\ \E r \in RatioChoices :
          analyzer = [header_margin_ratio |-> r[1], footer_margin_ratio |-> r[2]]
    /\ doc \in GeoDocs
    /\ range = <<0, None>>
    /\ page_analysis = <<>>
    /\ runs = <<>>
    /\ ConverterIdle
    /\ PdfConverterIdle
    /\ WorkersIdle
    /\ GuiIdle
    /\ UnitIdle

Analyzed(num) == \E k \in DOMAIN page_analysis : page_analysis[k].page_num = num

AnalyzePageCall ==
    /\ \E i \in DOMAIN doc :
          /\ ~Analyzed(i - 1)
          /\ page_analysis' = Append(page_analysis, AnalyzePage(analyzer, doc[i], i - 1))
    /\ UNCHANGED <<analyzer, doc, range, runs>>
    /\ UNCHANGED notAnVars

NextRegion == AnalyzePageCall

SpecRegion == InitRegion /\ [][NextRegion]_vars

(***************************************************************************)
(* analyze_document, called repeatedly on one document.                    *)
(***************************************************************************)
InitAnalyze ==
    /\ analyzer = [header_margin_ratio |-> 10, footer_margin_ratio |-> 10]
    /\ doc \in TextDocs \cup NumberedDocs
    /\ range \in RangeChoices
    /\ page_analysis = <<>>
    /\ runs = <<>>
    /\ ConverterIdle
    /\ PdfConverterIdle
    /\ WorkersIdle
    /\ GuiIdle
    /\ UnitIdle

AnalyzeDocumentCall ==
    /\ Len(runs) < MaxRuns
    /\ \E a \in AnalyzeDocument(analyzer, doc, range[1], range[2]) :
          runs' = Append(runs, a)
    /\ UNCHANGED <<analyzer, doc, range, page_analysis>>
    /\ UNCHANGED notAnVars

NextAnalyze == AnalyzeDocumentCall

SpecAnalyze == InitAnalyze /\ [][NextAnalyze]_vars

(***************************************************************************)
(* DocxConverter (conversores/docx_converter.py) and is_scanned_page       *)
(* (utils/ocr_engine.py).                                                  *)
(*                                                                         *)
(* A PDF page is [text_len, images, img_blocks]: the length of its         *)
(* stripped native text, the number of images page.get_images lists and    *)
(* the number of image blocks of its text dictionary.  Page indices are    *)
(* 0-based as in fitz; pdf[k + 1] is the page of index k.                  *)
(***************************************************************************)
MinTextLen == 20

\* variant: a page of exactly MinTextLen characters still counts as short
IsScannedPageInclusive(page) ==
    IF page.text_len > MinTextLen THEN FALSE
    ELSE IF page.images = 0 THEN FALSE
    ELSE page.img_blocks > 0

IsScannedPage(page) ==
    IF page.text_len >= MinTextLen THEN FALSE
    ELSE IF page.images = 0 THEN FALSE
    ELSE page.img_blocks > 0

ScannedCount(d) == Cardinality({k \in DOMAIN d : IsScannedPage(d[k])})
NativeCount(d) == Cardinality({k \in DOMAIN d : ~IsScannedPage(d[k])})

\* (a variant of DetectDocumentType that never answers "mixed")
DetectScannedFirst(d) ==
    IF ScannedCount(d) > 0 THEN "scanned" ELSE "native"

\* the value _detect_document_type returns for the pages d
DetectDocumentType(d) ==
    IF ScannedCount(d) = 0 THEN "native"
    ELSE IF NativeCount(d) = 0 THEN "scanned"
    ELSE "mixed"

\* Python's truth value of an Optional[int]: None and 0 are false
Truthy(o) == ~IsNone(o) /\ Val(o) # 0

\* list(range(first, stop))
RangeList(first, stop) == [k \in 1..(IF stop > first THEN stop - first ELSE 0) |-> first + k - 1]

\* _get_page_range on a document of n pages
GetPageRange(n, start, end) ==
    LET first == IF Truthy(start) THEN Val(start) - 1 ELSE 0
        last == IF Truthy(end) THEN Val(end) ELSE n
    IN  RangeList(first, Min(last, n))

\* the exception _resolve_page_range raises for (start, end), "" when it returns them
ResolvePageRange(start, end) ==
    IF ~IsNone(start) /\ Val(start) <= 0 THEN "ValueError"
    ELSE IF ~IsNone(end) /\ Val(end) <= 0 THEN "ValueError"
    ELSE IF ~IsNone(start) /\ ~IsNone(end) /\ Val(end) < Val(start) THEN "ValueError"
    ELSE ""

\* _build_page_list on a document of n pages: None, or the list of _get_page_range
BuildPageList(n, start, end) ==
    IF IsNone(start) /\ IsNone(end) THEN None ELSE Some(GetPageRange(n, start, end))

\* Python's truth value of an Optional[list]: None and [] are false
ListTruthy(pages) == ~IsNone(pages) /\ Val(pages) # <<>>

\* the pages pdf2docx converts for cv.convert(output_path, pages=pages): the listed pages,
\* and every page of the document when `pages` is false (the library tests `if pages`, as
\* line 108 does)
Pdf2DocxPages(n, pages) == IF ListTruthy(pages) THEN Val(pages) ELSE RangeList(0, n)

\* pages_converted of _convert_native: len(pages) if pages else self._count_pages(pdf_path)
NativePagesConverted(n, pages) == IF ListTruthy(pages) THEN Len(Val(pages)) ELSE n

OpenHandle(hs, kind, owner) == Append(hs, [kind |-> kind, owner |-> owner, closes |-> 0])
CloseHandle(hs, h) == [hs EXCEPT ![h].closes = @ + 1]
\* a handle opened and closed within one step
OpenedAndClosed(hs, kind, owner) == Append(hs, [kind |-> kind, owner |-> owner, closes |-> 1])

Handed(to, pages) == [k \in DOMAIN pages |-> [to |-> to, index |-> pages[k]]]
Emitted(via, pages) == [k \in DOMAIN pages |-> [page |-> pages[k], via |-> via]]

(***************************************************************************)
(* The pages of a mixed or scanned document, one by one                    *)
(* (_ocr_page_to_docx, _group_ocr_lines, _normalize_ocr_spacing,           *)
(* _native_page_to_docx, _add_image_block, _setup_section_from_page).      *)
(*                                                                         *)
(* Beside text_len, images and img_blocks a page carries width and height, *)
(* `blocks`, the blocks of get_text("dict", flags=TEXT_PRESERVE_WHITESPACE)*)
(* and `ocr`, the lines the OCR engine reads on the rendered page.  A text *)
(* block is [type |-> 0, lines]; a line is a sequence of spans [text,      *)
(* size, bold, italic, y0, y1]; an image block is [type |-> 1, image],     *)
(* image saying how extract_image fares: "ok", "none" (no image to         *)
(* extract) or "fails" (an exception).  An OCR line is [text, x0, y0, y1]. *)
(* Lengths are EMU where python-docx stores them (Pt(1) = 12700).          *)
(***************************************************************************)
EmuPerPt == 12700

\* what ocr_page returns as text_lines: nothing for a page is_scanned_page rejects; `line` is
\* the position of the line in the engine's answer
OcrPage(page) ==
    IF ~IsScannedPage(page) THEN <<>>
    ELSE [k \in DOMAIN page.ocr |->
             [line |-> k, text |-> page.ocr[k].text, x0 |-> page.ocr[k].x0,
              y0 |-> page.ocr[k].y0, y1 |-> page.ocr[k].y1]]

\* gap > avg_height * 1.5, with avg_height = (prev_height + curr_height) / 2
\* variant: a gap of exactly 1.5 times the average height starts a group too
NewGroupAtLeast(prev, line) ==
    4 * (line.y0 - prev.y1) >= 3 * ((prev.y1 - prev.y0) + (line.y1 - line.y0))

NewGroup(prev, line) ==
    4 * (line.y0 - prev.y1) > 3 * ((prev.y1 - prev.y0) + (line.y1 - line.y0))

\* the loop of _group_ocr_lines over sorted_lines, from line i
RECURSIVE GroupOcrLinesFrom(_, _, _, _)
GroupOcrLinesFrom(s, i, groups, current) ==
    IF i > Len(s) THEN (IF current # <<>> THEN Append(groups, current) ELSE groups)
    ELSE IF NewGroup(current[Len(current)], s[i])
         THEN GroupOcrLinesFrom(s, i + 1, Append(groups, current), <<s[i]>>)
    ELSE GroupOcrLinesFrom(s, i + 1, groups, Append(current, s[i]))

\* variant: the lines are taken in the order the engine gave them
GroupOcrLinesUnsorted(lines) ==
    IF lines = <<>> THEN <<>>
    ELSE GroupOcrLinesFrom(lines, 2, <<>>, <<lines[1]>>)

GroupOcrLines(lines) ==
    IF lines = <<>> THEN <<>>
    ELSE GroupOcrLinesFrom(SortBlocks(lines), 2, <<>>, <<SortBlocks(lines)[1]>>)

\* last index of the maximal run of whitespace that starts at i
SpaceRunEnd(t, i) ==
    CHOOSE j \in i..Len(t) :
        /\ \A k \in i..j : IsSpace(t[k])
        /\ j = Len(t) \/ ~IsSpace(t[j + 1])

\* one step of re.sub at position i of t: the number of characters the step consumes and
\* the text it puts out, the replacement where the pattern matches at i and t[i] otherwise
\*   "colon": (\w):(\w) becomes \1: \2
\*   "dot":   (\w)\.(\s?\w) becomes \1. \2
\*   "case":  ([a-z...])([A-Z...]) becomes \1 \2
\*   "spaces": \s{2,} becomes one space
ReStep(re, t, i) ==
    IF re = "colon" /\ i + 2 <= Len(t) /\ IsWord(t[i]) /\ t[i + 1] = ":" /\ IsWord(t[i + 2])
    THEN [len |-> 3, out |-> <<t[i], ":", " ", t[i + 2]>>]
    ELSE IF re = "dot" /\ i + 3 <= Len(t) /\ IsWord(t[i]) /\ t[i + 1] = "."
                /\ IsSpace(t[i + 2]) /\ IsWord(t[i + 3])
    THEN [len |-> 4, out |-> <<t[i], ".", " ", t[i + 2], t[i + 3]>>]
    ELSE IF re = "dot" /\ i + 2 <= Len(t) /\ IsWord(t[i]) /\ t[i + 1] = "." /\ IsWord(t[i + 2])
    THEN [len |-> 3, out |-> <<t[i], ".", " ", t[i + 2]>>]
    ELSE IF re = "case" /\ i + 1 <= Len(t) /\ t[i] \in Lower /\ t[i + 1] \in Upper
    THEN [len |-> 2, out |-> <<t[i], " ", t[i + 1]>>]
    ELSE IF re = "spaces" /\ IsSpace(t[i]) /\ SpaceRunEnd(t, i) > i
    THEN [len |-> SpaceRunEnd(t, i) - i + 1, out |-> <<" ">>]
    ELSE [len |-> 1, out |-> <<t[i]>>]

\* the left-to-right scan of re.sub over the positions lo..hi of t, when the scan resumes
\* at position `from` (the positions before it belong to the previous match): the text put
\* out and the position the scan has reached
RECURSIVE ReSubRange(_, _, _, _, _)
ReSubRange(re, t, lo, hi, from) ==
    IF lo > hi THEN [out |-> <<>>, from |-> from]
    ELSE IF lo = hi
    THEN IF lo < from THEN [out |-> <<>>, from |-> from]
         ELSE [out |-> ReStep(re, t, lo).out, from |-> lo + ReStep(re, t, lo).len]
    ELSE LET mid == (lo + hi) \div 2
             left == ReSubRange(re, t, lo, mid, from)
             right == ReSubRange(re, t, mid + 1, hi, left.from)
         IN  [out |-> left.out \o right.out, from |-> right.from]

\* a character every match of the pattern holds: a text without one is left as it is
ReNeeds(re, c) ==
    \/ re = "colon" /\ c = ":"
    \/ re = "dot" /\ c = "."
    \/ re = "case" /\ c \in Upper
    \/ re = "spaces" /\ IsSpace(c)

ReSub(re, t) ==
    IF \A i \in DOMAIN t : ~ReNeeds(re, t[i]) THEN t
    ELSE ReSubRange(re, t, 1, Len(t), 1).out

\* _normalize_ocr_spacing
NormalizeOcrSpacing(text) ==
    Strip(ReSub("spaces", ReSub("case", ReSub("dot", ReSub("colon", text)))))

RECURSIVE SumHeights(_)
SumHeights(group) ==
    IF group = <<>> THEN 0
    ELSE (group[1].y1 - group[1].y0) + SumHeights(Tail(group))

\* the style _ocr_page_to_docx gives a paragraph: font_size is avg_height * 0.65 kept within
\* 8..24 and avg_height is sum / n, so font_size > 13 is 65 * sum > 1300 * n, and so on
OcrStyle(group, text) ==
    LET sum == SumHeights(group)
        n == Len(group)
    IN  IF 65 * sum > 1300 * n /\ Len(text) < 80
        THEN IF 65 * sum >= 1800 * n THEN "Heading 1"
             ELSE IF 65 * sum >= 1400 * n THEN "Heading 2"
             ELSE "Heading 3"
        ELSE "Normal"

\* Pt(min(font_size, 12)) in EMU: Pt truncates, and font_size is at least 8
OcrRunSize(group) ==
    LET emu == (SumHeights(group) * 65 * (EmuPerPt \div 100)) \div Len(group)
    IN  IF emu < 8 * EmuPerPt THEN 8 * EmuPerPt
        ELSE IF emu > 12 * EmuPerPt THEN 12 * EmuPerPt
        ELSE emu

OcrText(group) == NormalizeOcrSpacing(Join(" ", [k \in DOMAIN group |-> group[k].text]))

\* the paragraphs the loop of _ocr_page_to_docx adds for the groups, from group i; `src` names
\* the OCR lines a paragraph was made of
RECURSIVE OcrParagraphsFrom(_, _, _)
OcrParagraphsFrom(groups, page_num, i) ==
    IF i > Len(groups) THEN <<>>
    ELSE LET group == groups[i]
             text == OcrText(group)
         IN  (IF Strip(text) = <<>> THEN <<>>
              ELSE <<[kind |-> "paragraph", page |-> page_num, via |-> "ocr", text |-> text,
                      style |-> OcrStyle(group, text),
                      src |-> [k \in DOMAIN group |-> <<group[k].line>>],
                      runs |-> <<[text |-> text, size |-> OcrRunSize(group),
                                  bold |-> FALSE, italic |-> FALSE]>>]>>)
             \o OcrParagraphsFrom(groups, page_num, i + 1)

\* what a call adds to the document body, to result.warnings and to result.images_extracted
Added(body, warnings, images) == [body |-> body, warnings |-> warnings, images |-> images]

\* _ocr_page_to_docx
OcrPageToDocx(page, page_num) ==
    IF OcrPage(page) = <<>>
    THEN Added(<<>>, <<[page |-> page_num, what |-> "no text detected by OCR"]>>, 0)
    ELSE Added(OcrParagraphsFrom(GroupOcrLines(OcrPage(page)), page_num, 1), <<>>, 0)

\* _add_image_block: a picture, nothing at all, or a warning for the exception it catches
AddImageBlock(block, page_num) ==
    IF block.image = "ok" THEN Added(<<[kind |-> "picture", page |-> page_num]>>, <<>>, 1)
    ELSE IF block.image = "none" THEN Added(<<>>, <<>>, 0)
    ELSE Added(<<>>, <<[page |-> page_num, what |-> "image extraction failed"]>>, 0)

RECURSIVE Concat(_)
Concat(parts) == IF parts = <<>> THEN <<>> ELSE parts[1] \o Concat(Tail(parts))

SpanTexts(spans) == [k \in DOMAIN spans |-> spans[k].text]

\* the runs of the paragraph of one line: a span without text gets none; `src` is the place
\* <<block, line, span>> of the span
\* variant: the loop over the spans stops at the first span without text
RECURSIVE RunsUntilEmpty(_, _, _, _)
RunsUntilEmpty(spans, b, l, k) ==
    IF k > Len(spans) THEN <<>>
    ELSE IF spans[k].text = <<>> THEN <<>>
    ELSE <<[text |-> spans[k].text, src |-> <<b, l, k>>,
            size |-> Min(spans[k].size, 24) * EmuPerPt,
            bold |-> spans[k].bold, italic |-> spans[k].italic]>>
         \o RunsUntilEmpty(spans, b, l, k + 1)

RECURSIVE RunsFrom(_, _, _, _)
RunsFrom(spans, b, l, k) ==
    IF k > Len(spans) THEN <<>>
    ELSE (IF spans[k].text = <<>> THEN <<>>
          ELSE <<[text |-> spans[k].text, src |-> <<b, l, k>>,
                  size |-> Min(spans[k].size, 24) * EmuPerPt,
                  bold |-> spans[k].bold, italic |-> spans[k].italic]>>)
         \o RunsFrom(spans, b, l, k + 1)

\* the paragraphs of the lines of text block b, from line l: a line without spans or with
\* blank text gets none; no style is set on a paragraph
RECURSIVE LineParagraphsFrom(_, _, _, _)
LineParagraphsFrom(lines, page_num, b, l) ==
    IF l > Len(lines) THEN <<>>
    ELSE LET spans == lines[l]
             rs == RunsFrom(spans, b, l, 1)
         IN  (IF spans = <<>> \/ Strip(Concat(SpanTexts(spans))) = <<>> THEN <<>>
              ELSE <<[kind |-> "paragraph", page |-> page_num, via |-> "native",
                      text |-> Concat(SpanTexts(spans)), style |-> "Normal",
                      src |-> [k \in DOMAIN rs |-> rs[k].src],
                      runs |-> [k \in DOMAIN rs |->
                                   [text |-> rs[k].text, size |-> rs[k].size,
                                    bold |-> rs[k].bold, italic |-> rs[k].italic]]]>>)
             \o LineParagraphsFrom(lines, page_num, b, l + 1)

\* the loop of _native_page_to_docx over the blocks, from block b
RECURSIVE NativeBlocksFrom(_, _, _, _)
NativeBlocksFrom(blocks, page_num, extract_images, b) ==
    IF b > Len(blocks) THEN Added(<<>>, <<>>, 0)
    ELSE LET rest == NativeBlocksFrom(blocks, page_num, extract_images, b + 1)
             this == IF blocks[b].type = 1 /\ extract_images
                     THEN AddImageBlock(blocks[b], page_num)
                     ELSE IF blocks[b].type # 0 THEN Added(<<>>, <<>>, 0)
                     ELSE Added(LineParagraphsFrom(blocks[b].lines, page_num, b, 1), <<>>, 0)
         IN  Added(this.body \o rest.body, this.warnings \o rest.warnings,
                   this.images + rest.images)

\* _native_page_to_docx
NativePageToDocx(page, page_num, extract_images) ==
    NativeBlocksFrom(page.blocks, page_num, extract_images, 1)

\* the section _setup_section_from_page sets up for a page
SectionOf(page, page_num) ==
    IF page.width > page.height
    THEN [page |-> page_num, orientation |-> "landscape",
          page_width |-> page.height, page_height |-> page.width]
    ELSE [page |-> page_num, orientation |-> "portrait",
          page_width |-> page.width, page_height |-> page.height]

\* create_document(): an empty body and the section of the default template
NewDocument ==
    [sections |-> <<[page |-> 0 - 1, orientation |-> "portrait",
                     page_width |-> 612, page_height |-> 792]>>,
     body |-> <<>>]

\* _setup_section_from_page: the first page of the range takes sections[0], every other
\* page a section of its own, which add_section starts with a section break
SetupSectionFromPage(wd, page, page_num, is_first) ==
    IF is_first
    THEN [wd EXCEPT !.sections[1] = SectionOf(page, page_num)]
    ELSE [sections |-> Append(wd.sections, SectionOf(page, page_num)),
          body |-> Append(wd.body, [kind |-> "section_break", page |-> page_num])]

\* (a variant of UseOcr that sends every page to native extraction)
UseOcrNever(page_num, scanned_pages) == FALSE

\* page_num in scanned_pages
UseOcr(page_num, scanned_pages) ==
    \E k \in DOMAIN scanned_pages : scanned_pages[k] = page_num

\* one iteration of the page loops of _convert_scanned and _convert_mixed on the document:
\* the page break, the section and the page's content
PageToDocx(wd, page, page_num, is_first, ocr, extract_images) ==
    LET broken == IF is_first THEN wd
                  ELSE [wd EXCEPT !.body = Append(@, [kind |-> "page_break",
                                                      page |-> page_num])]
        set_up == SetupSectionFromPage(broken, page, page_num, is_first)
        added == IF ocr THEN OcrPageToDocx(page, page_num)
                 ELSE NativePageToDocx(page, page_num, extract_images)
    IN  [word_doc |-> [set_up EXCEPT !.body = @ \o added.body],
         warnings |-> added.warnings, images |-> added.images]

(***************************************************************************)
(* DocxConverter.convert, step by step.  pc names the code about to run.   *)
(***************************************************************************)
Rep(c, n) == [i \in 1..n |-> c]

Span(text, size, bold, y0, y1) ==
    [text |-> text, size |-> size, bold |-> bold, italic |-> FALSE, x0 |-> 72,
     y0 |-> y0, y1 |-> y1]
TextBlock(lines) == [type |-> 0, lines |-> lines]
ImageBlock(image) == [type |-> 1, image |-> image]
OcrLine(text, x0, y0, y1) == [text |-> text, x0 |-> x0, y0 |-> y0, y1 |-> y1]

\* the texts of the lines of the text blocks, block after block
RECURSIVE LineTexts(_)
LineTexts(blocks) ==
    IF blocks = <<>> THEN <<>>
    ELSE (IF blocks[1].type # 0 THEN <<>>
          ELSE [l \in DOMAIN blocks[1].lines |-> Concat(SpanTexts(blocks[1].lines[l]))])
         \o LineTexts(Tail(blocks))

\* an A4 page with the blocks and OCR lines given: text_len is the length of its stripped
\* plain text, img_blocks the number of its image blocks
Page(blocks, images, ocr) ==
    [text_len |-> Len(Strip(Join("\n", LineTexts(blocks)))), images |-> images,
     img_blocks |-> Cardinality({b \in DOMAIN blocks : blocks[b].type = 1}),
     width |-> 595, height |-> 842, blocks |-> blocks, ocr |-> ocr]

\* a native text page, a scanned page (no text, one image), a blank page
NativeTextPage == Page(<<TextBlock(<<<<Span(Rep("x", 25), 11, FALSE, 100, 111)>>>>)>>, 0, <<>>)
ScannedImagePage == Page(<<ImageBlock("ok")>>, 1, <<OcrLine(Rep("t", 10), 72, 100, 112)>>)
BlankPage == Page(<<>>, 0, <<>>)
PageKinds == {NativeTextPage, ScannedImagePage, BlankPage}

StartChoices == {None} \cup {Some(v) : v \in (0 - 1)..(MaxPdfPages + 1)}
EndChoices == {None} \cup {Some(v) : v \in 0..(MaxPdfPages + 1)}

InitConvert ==
    /\ AnalyzerIdle
    /\ \E start \in StartChoices, end \in EndChoices :
          options = [DefaultOptions EXCEPT !.start_page = start, !.end_page = end]
    /\ \E exists \in BOOLEAN, dir \in {"absent", "present"} :
          /\ fs = [pdf_exists |-> exists, pdf_valid |-> exists, out_dir |-> dir,
                   out_writable |-> TRUE, out_file |-> "absent"]
          /\ pdf \in IF exists THEN SeqsUpTo(PageKinds, MaxPdfPages) \ {<<>>} ELSE {<<>>}
    /\ pc = "convert"
    /\ frame = NoFrame
    /\ result = NoResult
    /\ raised = NoException
    /\ handles = <<>>
    /\ handed = <<>>
    /\ emitted = <<>>
    /\ word_doc = NoWordDoc
    /\ PdfConverterIdle
    /\ WorkersIdle
    /\ GuiIdle
    /\ UnitIdle

\* lines 62-64: the input must be a file
ConvertCheckFile ==
    /\ pc = "convert"
    /\ IF ~fs.pdf_exists
       THEN /\ raised' = [exc |-> "FileNotFoundError", from |-> "convert"]
            /\ pc' = "raised"
       ELSE /\ pc' = "mkdir"
            /\ UNCHANGED raised
    /\ UNCHANGED <<options, fs, pdf, frame, result, handles, handed, emitted, word_doc>>
    /\ UNCHANGED notCvVars

\* lines 66-69: output_file.parent.mkdir(parents=True, exist_ok=True); a fresh ConversionResult
ConvertMkdir ==
    /\ pc = "mkdir"
    /\ fs' = [fs EXCEPT !.out_dir = IF @ = "absent" THEN "created" ELSE @]
    /\ result' = [NoResult EXCEPT !.set = TRUE]
    /\ pc' = "resolve"
    /\ UNCHANGED <<options, pdf, frame, raised, handles, handed, emitted, word_doc>>
    /\ UNCHANGED notCvVars

\* line 71: start, end = self._resolve_page_range(); its ValueError is raised outside the try
ConvertResolvePageRange ==
    /\ pc = "resolve"
    /\ IF ResolvePageRange(options.start_page, options.end_page) # ""
       THEN /\ raised' = [exc |-> ResolvePageRange(options.start_page, options.end_page),
                          from |-> "_resolve_page_range"]
            /\ pc' = "raised"
            /\ UNCHANGED frame
       ELSE /\ frame' = [frame EXCEPT !.start = options.start_page, !.end = options.end_page]
            /\ pc' = "detect"
            /\ UNCHANGED raised
    /\ UNCHANGED <<options, fs, pdf, result, handles, handed, emitted, word_doc>>
    /\ UNCHANGED notCvVars

\* lines 72-82: doc_type = _detect_document_type(...), then the dispatch on it.  The call is
\* made before the try of line 76: what fitz.open raises for a file it cannot open leaves
\* convert without passing through lines 86-88
ConvertDetectType ==
    /\ pc = "detect"
    /\ IF ~fs.pdf_valid
       THEN /\ raised' = [exc |-> "FileDataError", from |-> "_detect_document_type"]
            /\ pc' = "raised"
            /\ UNCHANGED <<handles, frame>>
       ELSE /\ handles' = OpenedAndClosed(handles, "fitz", "_detect_document_type")
            /\ frame' = [frame EXCEPT !.doc_type = DetectDocumentType(pdf), !.ret = "finish",
                                      !.is_scanned = [k \in DOMAIN pdf |-> IsScannedPage(pdf[k])]]
            /\ pc' = DetectDocumentType(pdf)
            /\ UNCHANGED raised
    /\ UNCHANGED <<options, fs, pdf, result, handed, emitted, word_doc>>
    /\ UNCHANGED notCvVars

\* an exception leaves a _convert_* method: called from convert, it is recorded and raised
\* again (lines 86-88); called from _convert_mixed (lines 168, 172), it first goes through
\* the finally of line 207
Fail(exc, from) ==
    IF frame.ret = "mixed_finally"
    THEN /\ frame' = [frame EXCEPT !.pending = [exc |-> exc, from |-> from]]
         /\ pc' = "mixed_finally"
         /\ UNCHANGED <<result, raised>>
    ELSE /\ result' = [result EXCEPT !.errors = Append(@, exc)]
         /\ raised' = [exc |-> exc, from |-> from]
         /\ pc' = "raised"
         /\ UNCHANGED frame

\* lines 96-110: _convert_native; when the output cannot be written cv.convert raises,
\* after the pages were converted in memory
ConvertNative ==
    /\ pc = "native"
    /\ LET pages == BuildPageList(Len(pdf), frame.start, frame.end)
           cv == OpenedAndClosed(handles, "pdf2docx", "_convert_native")
           built == IF IsNone(pages) THEN cv
                    ELSE OpenedAndClosed(cv, "fitz", "_build_page_list")
       IN  /\ handed' = handed \o (IF IsNone(pages) THEN <<>> ELSE Handed("pdf2docx", Val(pages)))
           /\ IF fs.out_writable
              THEN /\ handles' = IF ListTruthy(pages) THEN built
                                 ELSE OpenedAndClosed(built, "fitz", "_count_pages")
                   /\ emitted' = emitted \o Emitted("pdf2docx", Pdf2DocxPages(Len(pdf), pages))
                   /\ result' = [result EXCEPT
                                    !.pages_converted = NativePagesConverted(Len(pdf), pages)]
                   /\ fs' = [fs EXCEPT !.out_file = "written"]
                   /\ pc' = frame.ret
                   /\ UNCHANGED <<frame, raised>>
              ELSE /\ handles' = built
                   /\ Fail("PermissionError", "cv.convert")
                   /\ UNCHANGED <<emitted, fs>>
    /\ UNCHANGED <<options, pdf, word_doc>>
    /\ UNCHANGED notCvVars

\* lines 122-127: _convert_scanned opens the document, creates the output document and
\* lists the pages
ScannedOpen ==
    /\ pc = "scanned"
    /\ handles' = OpenHandle(handles, "fitz", "_convert_scanned")
    /\ word_doc' = NewDocument
    /\ frame' = [frame EXCEPT !.doc = Len(handles) + 1,
                              !.pages = GetPageRange(Len(pdf), frame.start, frame.end),
                              !.i = 1]
    /\ pc' = "scanned_page"
    /\ UNCHANGED <<options, fs, pdf, result, raised, handed, emitted>>
    /\ UNCHANGED notCvVars

\* lines 128-136: one iteration of the loop of _convert_scanned
ScannedPage ==
    /\ pc = "scanned_page"
    /\ frame.i <= Len(frame.pages)
    /\ LET pn == frame.pages[frame.i]
           done == PageToDocx(word_doc, pdf[pn + 1], pn, frame.i = 1, TRUE,
                              options.extract_images)
       IN  /\ handed' = Append(handed, [to |-> "fitz", index |-> pn])
           /\ emitted' = Append(emitted, [page |-> pn, via |-> "ocr"])
           /\ word_doc' = done.word_doc
           /\ result' = [result EXCEPT !.pages_converted = @ + 1,
                                       !.warnings = @ \o done.warnings]
    /\ frame' = [frame EXCEPT !.i = @ + 1]
    /\ UNCHANGED <<options, fs, pdf, pc, raised, handles>>
    /\ UNCHANGED notCvVars

\* lines 138-140: word_doc.save(output_path), then the finally
ScannedSave ==
    /\ pc = "scanned_page"
    /\ frame.i > Len(frame.pages)
    /\ handles' = CloseHandle(handles, frame.doc)
    /\ IF fs.out_writable
       THEN /\ fs' = [fs EXCEPT !.out_file = "written"]
            /\ pc' = frame.ret
            /\ UNCHANGED <<frame, result, raised>>
       ELSE /\ Fail("PermissionError", "word_doc.save")
            /\ UNCHANGED fs
    /\ UNCHANGED <<options, pdf, handed, emitted, word_doc>>
    /\ UNCHANGED notCvVars

\* lines 152-173: _convert_mixed opens the document, sorts the pages of the range into
\* native and scanned, and hands a range of one kind over to the method for that kind
MixedOpen ==
    /\ pc = "mixed"
    /\ LET pages == GetPageRange(Len(pdf), frame.start, frame.end)
           scanned == SelectSeq(pages, LAMBDA pn : IsScannedPage(pdf[pn + 1]))
           native == SelectSeq(pages, LAMBDA pn : ~IsScannedPage(pdf[pn + 1]))
           opened == OpenHandle(handles, "fitz", "_convert_mixed")
           h == Len(handles) + 1
           delegate == (native # <<>> /\ scanned = <<>>) \/ (scanned # <<>> /\ native = <<>>)
       IN  /\ handed' = handed \o Handed("fitz", pages)
           /\ handles' = IF delegate THEN CloseHandle(opened, h) ELSE opened
           /\ frame' = [frame EXCEPT !.mixed_doc = h, !.pages = pages, !.i = 1,
                                     !.native_pages = native, !.scanned_pages = scanned,
                                     !.ret = IF delegate THEN "mixed_finally" ELSE @]
           /\ pc' = IF native # <<>> /\ scanned = <<>> THEN "native"
                    ELSE IF scanned # <<>> /\ native = <<>> THEN "scanned"
                    ELSE "mixed_tmp"
    /\ UNCHANGED <<options, fs, pdf, result, raised, emitted, word_doc>>
    /\ UNCHANGED notCvVars

\* lines 175-187: the native pages go through pdf2docx into a temporary file, and the
\* output document is created
MixedNativeTmp ==
    /\ pc = "mixed_tmp"
    /\ IF frame.native_pages # <<>>
       THEN /\ handles' = OpenedAndClosed(handles, "pdf2docx", "_convert_mixed")
            /\ handed' = handed \o Handed("pdf2docx", frame.native_pages)
       ELSE UNCHANGED <<handles, handed>>
    /\ word_doc' = NewDocument
    /\ pc' = "mixed_page"
    /\ UNCHANGED <<options, fs, pdf, frame, result, raised, emitted>>
    /\ UNCHANGED notCvVars

\* lines 188-201: one iteration of the loop of _convert_mixed
MixedPage ==
    /\ pc = "mixed_page"
    /\ frame.i <= Len(frame.pages)
    /\ LET pn == frame.pages[frame.i]
           ocr == UseOcr(pn, frame.scanned_pages)
           done == PageToDocx(word_doc, pdf[pn + 1], pn, frame.i = 1, ocr,
                              options.extract_images)
       IN  /\ handed' = Append(handed, [to |-> "fitz", index |-> pn])
           /\ emitted' = Append(emitted, [page |-> pn,
                                          via |-> IF ocr THEN "ocr" ELSE "native"])
           /\ word_doc' = done.word_doc
           /\ result' = [result EXCEPT !.pages_converted = @ + 1,
                                       !.images_extracted = @ + done.images,
                                       !.warnings = @ \o done.warnings]
    /\ frame' = [frame EXCEPT !.i = @ + 1]
    /\ UNCHANGED <<options, fs, pdf, pc, raised, handles>>
    /\ UNCHANGED notCvVars

\* lines 203-208: word_doc.save(output_path), then the two finally blocks
MixedSave ==
    /\ pc = "mixed_page"
    /\ frame.i > Len(frame.pages)
    /\ handles' = CloseHandle(handles, frame.mixed_doc)
    /\ IF fs.out_writable
       THEN /\ fs' = [fs EXCEPT !.out_file = "written"]
            /\ pc' = "finish"
            /\ UNCHANGED <<result, raised>>
       ELSE /\ result' = [result EXCEPT !.errors = Append(@, "PermissionError")]
            /\ raised' = [exc |-> "PermissionError", from |-> "word_doc.save"]
            /\ pc' = "raised"
            /\ UNCHANGED fs
    /\ UNCHANGED <<options, pdf, frame, handed, emitted, word_doc>>
    /\ UNCHANGED notCvVars

\* lines 207-208 after the return of line 169 or 173, or the exception of the method called
\* there: doc.close() on the handle that line 167 or 171 closed already.  The call either
\* returns or raises, as the library decides; what it raises, like the exception it found
\* on its way, goes through lines 86-88 of convert
MixedFinally ==
    /\ pc = "mixed_finally"
    /\ handles' = CloseHandle(handles, frame.mixed_doc)
    /\ \/ /\ frame.pending.exc = ""
          /\ pc' = "finish"
          /\ UNCHANGED <<result, raised>>
       \/ /\ frame.pending.exc # ""
          /\ pc' = "raised"
          /\ result' = [result EXCEPT !.errors = Append(@, frame.pending.exc)]
          /\ raised' = frame.pending
       \/ /\ pc' = "raised"
          /\ result' = [result EXCEPT !.errors = Append(@, "document closed")]
          /\ raised' = [exc |-> "ValueError", from |-> "Document.close"]
    /\ UNCHANGED <<options, fs, pdf, frame, handed, emitted, word_doc>>
    /\ UNCHANGED notCvVars

\* lines 84-85 and 90: success, and the result is returned
ConvertFinish ==
    /\ pc = "finish"
    /\ result' = [result EXCEPT !.success = TRUE]
    /\ pc' = "returned"
    /\ UNCHANGED <<options, fs, pdf, frame, raised, handles, handed, emitted, word_doc>>
    /\ UNCHANGED notCvVars

NextConvert ==
    \/ ConvertCheckFile
    \/ ConvertMkdir
    \/ ConvertResolvePageRange
    \/ ConvertDetectType
    \/ ConvertNative
    \/ ScannedOpen
    \/ ScannedPage
    \/ ScannedSave
    \/ MixedOpen
    \/ MixedNativeTmp
    \/ MixedPage
    \/ MixedSave
    \/ MixedFinally
    \/ ConvertFinish

SpecConvert == InitConvert /\ [][NextConvert]_vars

(***************************************************************************)
(* Conversions of documents whose pages have content: the same convert,    *)
(* started on pages with text lines, image blocks and OCR lines, with the  *)
(* header / footer modes, and on a file that cannot be opened or an output *)
(* that cannot be written.                                                 *)
(***************************************************************************)
\* a page of native text: a header line, a short bold line at size 20 after a span without
\* text, a blank line, a line of 150 characters at size 20, a footer line
TitledTextPage ==
    Page(<<TextBlock(<<<<Span(Rep("H", 3), 10, FALSE, 30, 40)>>>>),
           TextBlock(<<<<Span(<<>>, 20, FALSE, 100, 120), Span(Rep("C", 15), 20, TRUE, 100, 120)>>,
                       <<Span(<<" ">>, 11, FALSE, 125, 136)>>,
                       <<Span(Rep("x", 150), 20, FALSE, 140, 160)>>>>),
           TextBlock(<<<<Span(Rep("F", 3), 10, FALSE, 800, 810)>>>>)>>, 0, <<>>)

\* a scanned page: one image, no text; the engine reads four lines, not in reading order:
\* 90 characters 31 points high, 10 characters 31 points high, and two lines 21 points high
\* that follow each other closely
ScannedLinesPage ==
    Page(<<ImageBlock("ok")>>, 1,
         <<OcrLine(Rep("x", 90), 72, 300, 331), OcrLine(Rep("t", 10), 72, 100, 131),
           OcrLine(Rep("c", 10), 72, 500, 521), OcrLine(Rep("g", 10), 72, 525, 546)>>)

\* a scanned page on which the engine reads nothing
ScannedSilentPage == Page(<<ImageBlock("ok")>>, 1, <<>>)

\* a page with exactly 20 characters of text and two images, the first of which cannot be
\* extracted
TextAndImagesPage ==
    Page(<<TextBlock(<<<<Span(Rep("x", 20), 11, FALSE, 100, 111)>>>>),
           ImageBlock("fails"), ImageBlock("ok")>>, 2, <<>>)

\* 19 characters of text: without an image, and over a scanned image
ShortTextPage == Page(<<TextBlock(<<<<Span(Rep("x", 19), 11, FALSE, 100, 111)>>>>)>>, 0, <<>>)
ShortTextOnScanPage ==
    Page(<<ImageBlock("ok"), TextBlock(<<<<Span(Rep("x", 19), 11, FALSE, 100, 111)>>>>)>>, 1,
         <<OcrLine(Rep("x", 19), 72, 100, 115)>>)

ContentKinds == {TitledTextPage, ScannedLinesPage, ScannedSilentPage, TextAndImagesPage,
                 ShortTextPage, ShortTextOnScanPage}

\* the mixed document of the scenario: native text on pages 1 and 3, page 2 scanned
ScenarioDoc == <<TitledTextPage, ScannedLinesPage, TitledTextPage>>

ContentDocs == (SeqsUpTo(ContentKinds, MaxContentPages) \ {<<>>}) \cup {ScenarioDoc}

\* (start_page, end_page): the whole document, page 2 alone, pages 1 to 2
ContentRanges == {<<None, None>>, <<Some(2), Some(2)>>, <<Some(1), Some(2)>>}

InitPages ==
    /\ AnalyzerIdle
    /\ \E rg \in ContentRanges, mode \in {"remove", "convert_to_header"}, ei \in BOOLEAN :
          options = [start_page |-> rg[1], end_page |-> rg[2], header_mode |-> mode,
                     footer_mode |-> mode, extract_images |-> ei]
    /\ \E valid \in BOOLEAN, writable \in BOOLEAN :
          /\ fs = [pdf_exists |-> TRUE, pdf_valid |-> valid, out_dir |-> "present",
                   out_writable |-> writable, out_file |-> "absent"]
          /\ pdf \in IF valid THEN ContentDocs ELSE {<<>>}
    /\ pc = "convert"
    /\ frame = NoFrame
    /\ result = NoResult
    /\ raised = NoException
    /\ handles = <<>>
    /\ handed = <<>>
    /\ emitted = <<>>
    /\ word_doc = NoWordDoc
    /\ PdfConverterIdle
    /\ WorkersIdle
    /\ GuiIdle
    /\ UnitIdle

SpecPages == InitPages /\ [][NextConvert]_vars

(***************************************************************************)
(* Properties of the page and document analysis.                           *)
(***************************************************************************)
Occurrences(blocks, i) == Cardinality({k \in DOMAIN blocks : blocks[k].span = i})

\* twice the vertical centre of a span against the two thresholds of its page
BelowHeaderThreshold(page, sp) ==
    (sp.y0 + sp.y1) * 100 < 2 * page.height * analyzer.header_margin_ratio
AboveFooterThreshold(page, sp) ==
    (sp.y0 + sp.y1) * 100 > 2 * page.height * (100 - analyzer.footer_margin_ratio)
OnThreshold(page, sp) ==
    \/ (sp.y0 + sp.y1) * 100 = 2 * page.height * analyzer.header_margin_ratio
    \/ (sp.y0 + sp.y1) * 100 = 2 * page.height * (100 - analyzer.footer_margin_ratio)

\* span i of the analysed page is in exactly one list, and in the list its type names;
\* a span without text is in none
InExactlyOne(pa, page, i) ==
    LET h == Occurrences(pa.header_blocks, i)
        f == Occurrences(pa.footer_blocks, i)
        b == Occurrences(pa.body_blocks, i)
    IN  /\ h + f + b = (IF Strip(page.spans[i].text) = <<>> THEN 0 ELSE 1)
        /\ \A k \in DOMAIN pa.header_blocks : pa.header_blocks[k].block_type = "header"
        /\ \A k \in DOMAIN pa.footer_blocks : pa.footer_blocks[k].block_type = "footer"
        /\ \A k \in DOMAIN pa.body_blocks : pa.body_blocks[k].block_type = "body"

HasText(page, i) == Strip(page.spans[i].text) # <<>>

\* C1: every span with text is in exactly one of header_blocks, footer_blocks and
\* body_blocks: header iff its centre is strictly below the header threshold, footer iff
\* it is strictly above the footer threshold, body otherwise, and so body when the centre
\* is on either threshold.  (The two bands do not overlap: the margin ratios sum to at
\* most 1, without which no span could be header iff below and footer iff above.)
C1_RegionExactlyOne ==
    \A r \in DOMAIN page_analysis :
        LET pa == page_analysis[r]
            page == doc[pa.page_num + 1]
        IN  \A i \in DOMAIN page.spans :
                /\ InExactlyOne(pa, page, i)
                /\ HasText(page, i) =>
                    /\ Occurrences(pa.header_blocks, i) = 1
                          <=> BelowHeaderThreshold(page, page.spans[i])
                    /\ Occurrences(pa.footer_blocks, i) = 1
                          <=> AboveFooterThreshold(page, page.spans[i])
                    /\ OnThreshold(page, page.spans[i])
                          => Occurrences(pa.body_blocks, i) = 1

\* a page analysed with the default margins on which one span is in the header and another,
\* whose centre is exactly on the header threshold, is in the body
C1_Witness ==
    /\ analyzer.header_margin_ratio = 10
    /\ \E r \in DOMAIN page_analysis :
          LET pa == page_analysis[r]
              page == doc[pa.page_num + 1]
          IN  /\ pa.header_blocks # <<>>
              /\ \E k \in DOMAIN pa.body_blocks :
                    (pa.body_blocks[k].y0 + pa.body_blocks[k].y1) * 100
                        = 2 * page.height * analyzer.header_margin_ratio

\* the pages of an analysis that have header (footer) text, and those whose text
\* normalises to the pattern p
WithHeader(a) == {k \in DOMAIN a.pages : a.pages[k].header_text # <<>>}
WithFooter(a) == {k \in DOMAIN a.pages : a.pages[k].footer_text # <<>>}
HeaderIs(a, p) == {k \in WithHeader(a) : Normalize(a.pages[k].header_text) = p}
FooterIs(a, p) == {k \in WithFooter(a) : Normalize(a.pages[k].footer_text) = p}

\* C2: after analyze_document, a non-empty common_header (common_footer) is the normalised
\* header (footer) text of at least half of the analysed pages that have header (footer)
\* text.
C2_CommonOnlyIfHalf ==
    \A r \in DOMAIN runs :
        LET a == runs[r]
        IN  /\ a.common_header # <<>> =>
                2 * Cardinality(HeaderIs(a, a.common_header)) >= Cardinality(WithHeader(a))
            /\ a.common_footer # <<>> =>
                2 * Cardinality(FooterIs(a, a.common_footer)) >= Cardinality(WithFooter(a))

\* an analysis whose common footer is the pattern of some, not all, of the pages that
\* have a footer
C2_Witness ==
    \E r \in DOMAIN runs :
        /\ runs[r].common_footer # <<>>
        /\ FooterIs(runs[r], runs[r].common_footer) # WithFooter(runs[r])

\* the first and last index of the maximal run of digits around position i
RunFirst(t, i) == CHOOSE l \in 1..i :
                     /\ \A k \in l..i : IsDigit(t[k])
                     /\ l = 1 \/ ~IsDigit(t[l - 1])
RunLast(t, i) == CHOOSE h \in i..Len(t) :
                    /\ \A k \in i..h : IsDigit(t[k])
                    /\ h = Len(t) \/ ~IsDigit(t[h + 1])

\* position i is in a run of digits with no letter, digit or underscore on either side
InDelimitedRun(t, i) ==
    /\ IsDigit(t[i])
    /\ RunFirst(t, i) = 1 \/ ~IsWord(t[RunFirst(t, i) - 1])
    /\ RunLast(t, i) = Len(t) \/ ~IsWord(t[RunLast(t, i) + 1])

\* the text with each run of digits (each delimited run) shrunk to one "#"
Skeleton(t) ==
    SelectSeq([i \in DOMAIN t |-> IF ~IsDigit(t[i]) THEN t[i]
                                  ELSE IF RunFirst(t, i) = i THEN "#" ELSE ""],
              LAMBDA c : c # "")
DelimitedSkeleton(t) ==
    SelectSeq([i \in DOMAIN t |-> IF ~InDelimitedRun(t, i) THEN t[i]
                                  ELSE IF RunFirst(t, i) = i THEN "#" ELSE ""],
              LAMBDA c : c # "")

\* the header and footer texts the analyses counted
CountedTexts(a) == {a.pages[k].header_text : k \in WithHeader(a)}
                   \cup {a.pages[k].footer_text : k \in WithFooter(a)}

\* C3, as amended: every run of digits that has no letter, digit or underscore next to it
\* is replaced by the placeholder, so two texts that differ only in such runs have the
\* same pattern; a run of digits next to a letter is left as it is.
C3_DelimitedRunsNormalized ==
    \A r \in DOMAIN runs :
        \A t1 \in CountedTexts(runs[r]) :
            /\ \A i \in DOMAIN Normalize(t1) : ~InDelimitedRun(Normalize(t1), i)
            /\ \A t2 \in CountedTexts(runs[r]) :
                  DelimitedSkeleton(t1) = DelimitedSkeleton(t2) => Normalize(t1) = Normalize(t2)

\* C3, as claimed: two texts that differ only in their runs of digits have the same pattern.
C3_AsClaimed ==
    \A r \in DOMAIN runs :
        \A t1, t2 \in CountedTexts(runs[r]) :
            Skeleton(t1) = Skeleton(t2) => Normalize(t1) = Normalize(t2)

\* an analysis that counted two different footers, "P <n>" with different numbers, as the
\* same pattern, which it found to be the common footer
C3_Witness ==
    \E r \in DOMAIN runs :
        \E k1, k2 \in WithFooter(runs[r]) :
            /\ runs[r].pages[k1].footer_text # runs[r].pages[k2].footer_text
            /\ DelimitedSkeleton(runs[r].pages[k1].footer_text)
                  = DelimitedSkeleton(runs[r].pages[k2].footer_text)
            /\ Normalize(runs[r].pages[k1].footer_text) = runs[r].common_footer
            /\ Normalize(runs[r].pages[k2].footer_text) = runs[r].common_footer

\* C4, as claimed: with k >= 2 numbers taken from the footers, sequential numbering is
\* reported exactly when at least 60% of the k - 1 consecutive pairs increase by 1.
C4_AsClaimed ==
    \A r \in DOMAIN runs :
        LET numbers == LastNumbers(FooterTexts(runs[r].pages))
        IN  (Len(runs[r].pages) >= 2 /\ Len(numbers) >= 2) =>
                (runs[r].detected_page_numbers
                    <=> 10 * Sequential(numbers) >= 6 * (Len(numbers) - 1))

SpecCasePages == 5

NumberedPattern == <<"P", "a", "g", "e", " ">> \o NUM \o <<" ", "o", "f", " ">> \o NUM

\* C5, as claimed, in the spec's case: the whole 5-page document with the footers
\* "Page i of 5" gives detected_page_numbers = True and common_footer "Page {NUM} of {NUM}".
C5_AsClaimed ==
    \A r \in DOMAIN runs :
        (doc = NumberedDoc(SpecCasePages) /\ range = <<0, None>>) =>
            /\ runs[r].detected_page_numbers
            /\ runs[r].common_footer = NumberedPattern

\* C6: the analyses of one document agree on common_header and common_footer.
C6_SameCommonEveryRun ==
    \A r1, r2 \in DOMAIN runs :
        /\ runs[r1].common_header = runs[r2].common_header
        /\ runs[r1].common_footer = runs[r2].common_footer

\* two analyses of a document in which two header patterns tie for the most frequent
C6_Witness ==
    /\ Len(runs) >= 2
    /\ LET n == MapNormalize(HeaderTexts(runs[1].pages))
       IN  \E i, j \in DOMAIN n :
              /\ n[i] # n[j]
              /\ CountOf(n, n[i]) = CountOf(n, n[j])
              /\ \A k \in DOMAIN n : CountOf(n, n[k]) <= CountOf(n, n[i])

(***************************************************************************)
(* Properties of DocxConverter.convert.                                    *)
(***************************************************************************)
\* the 1-based page numbers the options ask for, on a document of n pages
FirstWanted == IF IsNone(options.start_page) THEN 1 ELSE Val(options.start_page)
LastWanted(n) == IF IsNone(options.end_page) THEN n ELSE Val(options.end_page)
Wanted(n) == {p \in 1..n : FirstWanted <= p /\ p <= LastWanted(n)}

InputError == pc = "raised" /\ raised.from \in {"convert", "_resolve_page_range"}

\* C7, as claimed: when convert raises FileNotFoundError for a missing input or ValueError
\* for an incoherent page range, no document has been opened, nothing has been created or
\* written on the output side and no page has been converted.
C7_AsClaimed ==
    InputError =>
        /\ handles = <<>>
        /\ fs.out_dir # "created"
        /\ fs.out_file = "absent"
        /\ emitted = <<>>
        /\ result.pages_converted = 0

\* C8, as claimed: a convert that returns reports as pages_converted the number of pages of
\* the document that lie in the range asked for.
C8_AsClaimed ==
    pc = "returned" => result.pages_converted = Cardinality(Wanted(Len(pdf)))

\* C9, as claimed: every index handed to a page array or to pdf2docx is a page number of
\* the range asked for minus 1 and an index of the document, and every page converted is
\* a page of the range asked for.
C9_AsClaimed ==
    /\ \A k \in DOMAIN handed :
          /\ handed[k].index \in 0..(Len(pdf) - 1)
          /\ handed[k].index + 1 \in Wanted(Len(pdf))
    /\ \A k \in DOMAIN emitted : emitted[k].page + 1 \in Wanted(Len(pdf))

NeedsOCR(k) == IsScannedPage(pdf[k])

\* C10: the type detected for a document is "native" exactly when none of its pages needs
\* OCR, "scanned" exactly when all of them do, and "mixed" exactly when some page does and
\* some page does not.  (The document has at least one page.)
C10_DocumentType ==
    frame.doc_type # "" =>
        /\ frame.doc_type \in {"native", "scanned", "mixed"}
        /\ frame.doc_type = "native" <=> \A k \in DOMAIN pdf : ~NeedsOCR(k)
        /\ frame.doc_type = "scanned" <=> \A k \in DOMAIN pdf : NeedsOCR(k)
        /\ frame.doc_type = "mixed" <=> /\ \E k \in DOMAIN pdf : NeedsOCR(k)
                                        /\ \E k \in DOMAIN pdf : ~NeedsOCR(k)

\* a conversion that detected a mixed document: a scanned page among native ones
C10_Witness ==
    /\ frame.doc_type = "mixed"
    /\ pc = "returned"
    /\ \E k \in DOMAIN pdf : NeedsOCR(k)
    /\ \E k \in DOMAIN pdf : ~NeedsOCR(k)

(***************************************************************************)
(* Properties of the conversion of pages with content.                     *)
(***************************************************************************)
\* the page has an embedded image that shows as an image block
HasImageBlock(page) == page.images > 0 /\ page.img_blocks > 0

\* C11: is_scanned_page reports that a page needs OCR exactly when its stripped native text
\* is shorter than 20 characters and the page has an embedded image that shows as an image
\* block; a page with 20 characters or more is never scanned, images or not, and a page
\* without an image is never scanned, text or not.
C11_ScannedIffShortTextAndImage ==
    \A k \in DOMAIN frame.is_scanned :
        /\ frame.is_scanned[k] <=> (pdf[k].text_len < 20 /\ HasImageBlock(pdf[k]))
        /\ pdf[k].text_len >= 20 => ~frame.is_scanned[k]
        /\ pdf[k].images = 0 => ~frame.is_scanned[k]

\* a document in which a page of 19 characters over an image is scanned and a page of 20
\* characters with images is not
C11_Witness ==
    /\ \E k \in DOMAIN frame.is_scanned :
          frame.is_scanned[k] /\ pdf[k].text_len = 19 /\ HasImageBlock(pdf[k])
    /\ \E k \in DOMAIN frame.is_scanned :
          ~frame.is_scanned[k] /\ pdf[k].text_len = 20 /\ HasImageBlock(pdf[k])

\* the paragraphs of the document that page pn gave
ParagraphsOf(wd, pn) == SelectSeq(wd.body, LAMBDA e : e.kind = "paragraph" /\ e.page = pn)

\* C12: once a mixed document has been written, the pages put into the output are the
\* pages of the range asked for, each once and in ascending order, through OCR exactly when
\* the page needs OCR; the elements of the document built page by page follow the same
\* order and every paragraph comes from the path of its page.
C12_MixedPagesOnceInOrder ==
    (frame.doc_type = "mixed" /\ fs.out_file = "written") =>
        /\ {emitted[k].page + 1 : k \in DOMAIN emitted} = Wanted(Len(pdf))
        /\ \A j, k \in DOMAIN emitted : j < k => emitted[j].page < emitted[k].page
        /\ \A k \in DOMAIN emitted :
              emitted[k].via = "ocr" <=> NeedsOCR(emitted[k].page + 1)
        /\ \A j, k \in DOMAIN word_doc.body :
              j < k => word_doc.body[j].page <= word_doc.body[k].page
        /\ \A k \in DOMAIN word_doc.body :
              word_doc.body[k].kind = "paragraph" =>
                  (word_doc.body[k].via = "ocr" <=> NeedsOCR(word_doc.body[k].page + 1))

\* the 3-page document with only page 2 scanned, converted whole: mixed, page 2 through
\* OCR, pages 1 and 3 through native extraction
C12_Witness ==
    /\ pc = "returned"
    /\ frame.doc_type = "mixed"
    /\ emitted = <<[page |-> 0, via |-> "native"], [page |-> 1, via |-> "ocr"],
                   [page |-> 2, via |-> "native"]>>
    /\ \E k \in DOMAIN word_doc.body :
          word_doc.body[k].kind = "paragraph" /\ word_doc.body[k].via = "ocr"

\* the scenario: 3 pages, pages 1 and 3 of native text, page 2 an image without text,
\* converted whole
MixedScenario ==
    /\ Len(pdf) = 3
    /\ ~NeedsOCR(1) /\ NeedsOCR(2) /\ ~NeedsOCR(3)
    /\ pdf[2].text_len = 0
    /\ IsNone(options.start_page) /\ IsNone(options.end_page)

PageBreaks(wd) == SelectSeq(wd.body, LAMBDA e : e.kind = "page_break")

\* C13, as claimed: the document produced for the 3-page mixed scenario contains 3 page
\* breaks, in source-page order.
C13_AsClaimed ==
    (MixedScenario /\ pc = "returned") =>
        /\ Len(PageBreaks(word_doc)) = 3
        /\ \A j, k \in DOMAIN PageBreaks(word_doc) :
              j < k => PageBreaks(word_doc)[j].page < PageBreaks(word_doc)[k].page

\* the partial failures of the page of an entry of `emitted`: an OCR page on which nothing
\* was read, an image of a native page that could not be extracted
FailingImages(page) ==
    IF options.extract_images
    THEN Cardinality({b \in DOMAIN page.blocks :
                         page.blocks[b].type = 1 /\ page.blocks[b].image = "fails"})
    ELSE 0

PartialFailuresOf(e) ==
    IF e.via = "ocr" THEN (IF OcrPage(pdf[e.page + 1]) = <<>> THEN 1 ELSE 0)
    ELSE IF e.via = "native" THEN FailingImages(pdf[e.page + 1])
    ELSE 0

RECURSIVE PartialFailuresFrom(_)
PartialFailuresFrom(k) ==
    IF k > Len(emitted) THEN 0 ELSE PartialFailuresOf(emitted[k]) + PartialFailuresFrom(k + 1)

PartialFailures == PartialFailuresFrom(1)

\* C14, as claimed: a conversion of a file that opens, to an output that can be written,
\* in which a scanned page gave no OCR line or an image failed to extract ends with
\* convert returning success = True, one warning for each such failure, no error, and every
\* page of the range in the output and counted.
C14_AsClaimed ==
    (/\ pc \in {"returned", "raised"}
     /\ fs.pdf_valid /\ fs.out_writable /\ ~InputError
     /\ PartialFailures > 0)
    =>  /\ pc = "returned"
        /\ result.success
        /\ result.errors = <<>>
        /\ Len(result.warnings) = PartialFailures
        /\ {emitted[k].page + 1 : k \in DOMAIN emitted} = Wanted(Len(pdf))
        /\ result.pages_converted = Cardinality(Wanted(Len(pdf)))

\* convert failed because the document could not be opened or the output not written
FatalFailure ==
    /\ pc = "raised"
    /\ raised.from \in {"_detect_document_type", "cv.convert", "word_doc.save"}

\* C15, as claimed: when convert fails because the document cannot be opened or the output
\* cannot be written, the failure is in result.errors, success is False and the exception
\* is raised to the caller.
C15_AsClaimed ==
    FatalFailure =>
        /\ result.set
        /\ result.errors # <<>>
        /\ ~result.success
        /\ raised.exc # ""

\* the places <<block, line, span>> of the spans of a page whose stripped text is not empty
TextSpanPlaces(page) ==
    UNION {UNION {{<<b, l, k>> : k \in {k \in DOMAIN page.blocks[b].lines[l] :
                                            Strip(page.blocks[b].lines[l][k].text) # <<>>}} :
                     l \in DOMAIN page.blocks[b].lines} :
              b \in {b \in DOMAIN page.blocks : page.blocks[b].type = 0}}

\* the (paragraph, position) pairs of the page's paragraphs whose source is the place p
SourcesAt(pars, p) ==
    UNION {{<<i, j>> : j \in {j \in DOMAIN pars[i].src : pars[i].src[j] = p}} :
              i \in DOMAIN pars}

\* the OCR lines of a page whose stripped text is not empty
TextLinePlaces(page) == {<<k>> : k \in {k \in DOMAIN page.ocr : Strip(page.ocr[k].text) # <<>>}}

SourceSpans(par) ==
    [j \in DOMAIN par.src |->
        pdf[par.page + 1].blocks[par.src[j][1]].lines[par.src[j][2]][par.src[j][3]]]
SourceLines(par) == [j \in DOMAIN par.src |-> pdf[par.page + 1].ocr[par.src[j][1]]]

RECURSIVE SumSizes(_)
SumSizes(spans) == IF spans = <<>> THEN 0 ELSE spans[1].size + SumSizes(Tail(spans))

\* the average font size of the paragraph is above / at least pt points: of its spans, or
\* 0.65 times the average height of its OCR lines
AvgSizeAbove(par, pt) ==
    IF par.via = "native" THEN SumSizes(SourceSpans(par)) > pt * Len(par.src)
    ELSE 65 * SumHeights(SourceLines(par)) > 100 * pt * Len(par.src)
AvgSizeAtLeast(par, pt) ==
    IF par.via = "native" THEN SumSizes(SourceSpans(par)) >= pt * Len(par.src)
    ELSE 65 * SumHeights(SourceLines(par)) >= 100 * pt * Len(par.src)
AnyBold(par) ==
    par.via = "native" /\ \E j \in DOMAIN par.src : SourceSpans(par)[j].bold

TitleAsSpecified(par) ==
    (AvgSizeAbove(par, 14) \/ AnyBold(par)) /\ Len(par.text) < 100

\* C17, as claimed: a paragraph of the output is a title (has a heading style) exactly when
\* its average font size is above 14pt or one of its blocks is bold, and its text is
\* shorter than 100 characters; a title of size 18 or more is a Heading 1.
C17_AsClaimed ==
    \A k \in DOMAIN word_doc.body :
        word_doc.body[k].kind = "paragraph" =>
            /\ word_doc.body[k].style # "Normal" <=> TitleAsSpecified(word_doc.body[k])
            /\ (TitleAsSpecified(word_doc.body[k]) /\ AvgSizeAtLeast(word_doc.body[k], 18))
                  => word_doc.body[k].style = "Heading 1"

\* the page as the analyzer reads it, and the analyses of the document with the default
\* margins
AnalyzerSpans(blocks) ==
    Concat([b \in DOMAIN blocks |->
               IF blocks[b].type # 0 THEN <<>> ELSE Concat(blocks[b].lines)])
AnalyzerDoc == [k \in DOMAIN pdf |->
                   [height |-> pdf[k].height,
                    spans |-> [j \in DOMAIN AnalyzerSpans(pdf[k].blocks) |->
                                  [text |-> AnalyzerSpans(pdf[k].blocks)[j].text,
                                   x0 |-> AnalyzerSpans(pdf[k].blocks)[j].x0,
                                   y0 |-> AnalyzerSpans(pdf[k].blocks)[j].y0,
                                   y1 |-> AnalyzerSpans(pdf[k].blocks)[j].y1,
                                   size |-> AnalyzerSpans(pdf[k].blocks)[j].size]]]]
Detected ==
    AnalyzeDocument([header_margin_ratio |-> 10, footer_margin_ratio |-> 10],
                    AnalyzerDoc, 0, None)

\* the span lies in the header (footer) band of its page and is the common header (footer)
\* detected for the document
Boilerplate(page, span, region) ==
    /\ Strip(span.text) # <<>>
    /\ Region(10, 10, page.height, span.y0, span.y1) = region
    /\ \E a \in Detected :
          Normalize(Strip(span.text)) =
              (IF region = "header" THEN a.common_header ELSE a.common_footer)

InOutput(pn, region) ==
    \E k \in DOMAIN word_doc.body :
        /\ word_doc.body[k].kind = "paragraph"
        /\ word_doc.body[k].via = "native"
        /\ word_doc.body[k].page = pn
        /\ \E j \in DOMAIN word_doc.body[k].src :
              Boilerplate(pdf[pn + 1], SourceSpans(word_doc.body[k])[j], region)

\* C19, as claimed: with header_mode = remove (footer_mode = remove) no span that lies in
\* the header (footer) band and matches the detected common header (footer) is in the body
\* of the document produced.
C19_AsClaimed ==
    /\ options.header_mode = "remove" => \A k \in DOMAIN pdf : ~InOutput(k - 1, "header")
    /\ options.footer_mode = "remove" => \A k \in DOMAIN pdf : ~InOutput(k - 1, "footer")

(***************************************************************************)
(* PdfConverter: DOCX, TXT and Markdown laid out on A4 pages.              *)
(* Lengths are in thousandths of a point, so that font_size * 1.5,         *)
(* line_height * 0.3 and line_height / 2 are whole numbers for every font  *)
(* size in half points, the unit of a DOCX file.                           *)
(***************************************************************************)
Mp == 1000
page_height == 842 * Mp
margin == 72 * Mp
text_width == 451 * Mp          \* page_width - 2 * margin, and the 451 of _convert_txt_to_pdf
TxtBottom == 770 * Mp           \* the 770 of _convert_txt_to_pdf and _convert_md_to_pdf
TableBottom == 750 * Mp
TableRowHeight == 14 * Mp
DefaultFontSize == 11 * Mp
HeadingGap == 5 * Mp

\* the k-th smallest element of a set of numbers
NthOf(S, k) == CHOOSE x \in S : Cardinality({y \in S : y < x}) = k - 1

\* content.split("\n")
SplitLines(t) ==
    LET nl == {i \in DOMAIN t : t[i] = "\n"}
        from(k) == IF k = 1 THEN 1 ELSE NthOf(nl, k - 1) + 1
        to(k) == IF k = Cardinality(nl) + 1 THEN Len(t) ELSE NthOf(nl, k) - 1
    IN  [k \in 1..(Cardinality(nl) + 1) |-> SubSeq(t, from(k), to(k))]

\* text.split(): the maximal runs of characters that are not whitespace
SplitWords(t) ==
    LET starts == {i \in DOMAIN t : ~IsSpace(t[i]) /\ (i = 1 \/ IsSpace(t[i - 1]))}
        ends == {i \in DOMAIN t : ~IsSpace(t[i]) /\ (i = Len(t) \/ IsSpace(t[i + 1]))}
    IN  [k \in 1..Cardinality(starts) |-> SubSeq(t, NthOf(starts, k), NthOf(ends, k))]

StartsWith(t, prefix) == Len(t) >= Len(prefix) /\ SubSeq(t, 1, Len(prefix)) = prefix

\* int(max_width / (font_size * 0.5)): int() drops the fraction, towards zero
CharsPerLine(max_width, font_size) ==
    IF max_width >= 0 THEN (2 * max_width) \div font_size
    ELSE 0 - ((0 - 2 * max_width) \div font_size)

\* variant: the space before the word is not counted
RECURSIVE WrapFromNoSpace(_, _, _, _, _, _)
WrapFromNoSpace(words, i, lines, current_line, current_length, chars_per_line) ==
    IF i > Len(words)
    THEN (IF current_line # <<>> THEN Append(lines, Join(" ", current_line)) ELSE lines)
    ELSE IF current_length + Len(words[i]) <= chars_per_line
    THEN WrapFromNoSpace(words, i + 1, lines, Append(current_line, words[i]),
                         current_length + Len(words[i]), chars_per_line)
    ELSE WrapFromNoSpace(words, i + 1,
                         IF current_line # <<>> THEN Append(lines, Join(" ", current_line))
                         ELSE lines,
                         <<words[i]>>, Len(words[i]), chars_per_line)

\* the loop of _wrap_text over the words, from word i
RECURSIVE WrapFrom(_, _, _, _, _, _)
WrapFrom(words, i, lines, current_line, current_length, chars_per_line) ==
    IF i > Len(words)
    THEN (IF current_line # <<>> THEN Append(lines, Join(" ", current_line)) ELSE lines)
    ELSE IF current_length + Len(words[i]) + 1 <= chars_per_line
    THEN WrapFrom(words, i + 1, lines, Append(current_line, words[i]),
                  current_length + Len(words[i]) + 1, chars_per_line)
    ELSE WrapFrom(words, i + 1,
                  IF current_line # <<>> THEN Append(lines, Join(" ", current_line)) ELSE lines,
                  <<words[i]>>, Len(words[i]), chars_per_line)

\* _wrap_text
WrapText(text, max_width, font_size) ==
    LET lines == WrapFrom(SplitWords(text), 1, <<>>, <<>>, 0,
                          CharsPerLine(max_width, font_size))
    IN  IF lines # <<>> THEN lines ELSE <<<<>>>>

\* font_size * 1.5, line_height * 0.3, line_height / 2
LineHeight(font_size) == (font_size * 3) \div 2
ParagraphGap(line_height) == (line_height * 3) \div 10
HalfLine(line_height) == line_height \div 2

\* the font size the style of a paragraph gives (the name in lower case; "title" is looked
\* for as a substring, so a subtitle is a title)
StyleFontSize(style_name) ==
    IF style_name = "heading 1" THEN 18 * Mp
    ELSE IF style_name = "heading 2" THEN 14 * Mp
    ELSE IF style_name = "heading 3" THEN 12 * Mp
    ELSE IF style_name \in {"title", "subtitle"} THEN 20 * Mp
    ELSE DefaultFontSize

\* the loop over para.runs: the last run that has a size gives the font size
RECURSIVE RunFontSize(_, _)
RunFontSize(sizes, font_size) ==
    IF sizes = <<>> THEN font_size
    ELSE RunFontSize(Tail(sizes), IF IsNone(sizes[1]) THEN font_size ELSE Val(sizes[1]))

\* the place of the layout: the y of the next line, the page drawn on, len(pdf_doc) and
\* the lines drawn so far
Place(f) == [y |-> f.current_y, page |-> f.current_page, pages |-> f.pages, drawn |-> f.drawn]

DrawnLine(kind, item, k, page, y, line_height, text) ==
    [kind |-> kind, item |-> item, k |-> k, page |-> page, y |-> y,
     line_height |-> line_height, text |-> text]

\* the loop over the wrapped lines of text item `item`, from line k; with `check` a new page
\* is started before a line that would pass page_height - margin
RECURSIVE DrawLines(_, _, _, _, _, _)
DrawLines(lines, k, st, line_height, item, check) ==
    IF k > Len(lines) THEN st
    ELSE LET brk == check /\ st.y + line_height > page_height - margin
             y == IF brk THEN margin ELSE st.y
             page == IF brk THEN st.pages + 1 ELSE st.page
         IN  DrawLines(lines, k + 1,
                       [y |-> y + line_height, page |-> page,
                        pages |-> IF brk THEN st.pages + 1 ELSE st.pages,
                        drawn |-> Append(st.drawn,
                                         DrawnLine("line", item, k, page, y, line_height,
                                                   lines[k]))],
                       line_height, item, check)

RECURSIVE JoinWith(_, _)
JoinWith(sep, parts) ==
    IF parts = <<>> THEN <<>>
    ELSE IF Len(parts) = 1 THEN parts[1]
    ELSE parts[1] \o sep \o JoinWith(sep, Tail(parts))

\* " | ".join(cell.text.strip() for cell in row.cells)
RowText(row) == JoinWith(<<" ", "|", " ">>, [c \in DOMAIN row |-> Strip(row[c])])

\* the loop of _add_table_to_pdf over the rows of table `item`, from row r
RECURSIVE TableRows(_, _, _, _)
TableRows(rows, r, st, item) ==
    IF r > Len(rows) THEN st
    ELSE IF Strip(RowText(rows[r])) = <<>> THEN TableRows(rows, r + 1, st, item)
    ELSE LET brk == st.y > TableBottom
             y == IF brk THEN margin ELSE st.y
             page == IF brk THEN st.pages + 1 ELSE st.page
         IN  TableRows(rows, r + 1,
                       [y |-> y + TableRowHeight, page |-> page,
                        pages |-> IF brk THEN st.pages + 1 ELSE st.pages,
                        drawn |-> Append(st.drawn,
                                         DrawnLine("row", item, r, page, y, TableRowHeight,
                                                   RowText(rows[r])))],
                       item)

\* the except clause of convert: the error is recorded and raised again
FlowFail(f, exc, from) ==
    [f EXCEPT !.pc = "raised", !.raised = [exc |-> exc, from |-> from],
              !.result.errors = Append(@, exc)]

\* lines 20-45: the checks, the result, the choice of the layout by the extension
PdfConvert ==
    /\ flow.pc = "convert"
    /\ IF ~flow.exists
       THEN flow' = [flow EXCEPT !.pc = "raised",
                                 !.raised = [exc |-> "FileNotFoundError", from |-> "convert"]]
       ELSE LET f == [flow EXCEPT !.out_dir = "present", !.result.set = TRUE]
            IN  IF f.ext \notin {".docx", ".txt", ".md"}
                THEN flow' = FlowFail(f, "ValueError", "convert")
                ELSE IF ~f.readable
                THEN flow' = FlowFail(f, "OpenError", "open")
                ELSE flow' = [f EXCEPT
                        !.pc = IF f.ext = ".txt" THEN "txt_line"
                               ELSE IF f.ext = ".md" THEN "md_line"
                               ELSE IF f.content # <<>> THEN "docx_paragraph"
                               ELSE IF f.tables # <<>> THEN "docx_table"
                               ELSE "save",
                        !.i = 1, !.pages = 1, !.current_page = 1, !.current_y = margin,
                        !.line_height = IF f.ext = ".docx" THEN 14 * Mp ELSE 0]
    /\ UNCHANGED notFlVars

\* lines 76-139: one paragraph of doc.paragraphs
DocxParagraph ==
    /\ flow.pc = "docx_paragraph"
    /\ LET para == flow.content[flow.i]
           text == Strip(para.text)
           font_size == RunFontSize(para.sizes, StyleFontSize(para.style))
           line_height == LineHeight(font_size)
           st == DrawLines(WrapText(text, text_width, font_size), 1, Place(flow),
                           line_height, flow.i, TRUE)
           next == IF flow.i < Len(flow.content) THEN "docx_paragraph"
                   ELSE IF flow.tables # <<>> THEN "docx_table"
                   ELSE "save"
           i == IF flow.i < Len(flow.content) THEN flow.i + 1 ELSE 1
       IN  IF text = <<>>
           THEN flow' = [flow EXCEPT !.current_y = @ + HalfLine(flow.line_height),
                                     !.pc = next, !.i = i]
           ELSE flow' = [flow EXCEPT
                   !.line_height = line_height,
                   !.current_y = st.y + ParagraphGap(line_height),
                   !.current_page = st.page, !.pages = st.pages, !.drawn = st.drawn,
                   !.result.pages_converted = @ + (st.pages - flow.pages),
                   !.pc = next, !.i = i]
    /\ UNCHANGED notFlVars

\* lines 141-142 and 172-193: one table of doc.tables, always from the page and the y at
\* which the paragraphs ended
DocxTable ==
    /\ flow.pc = "docx_table"
    /\ LET st == TableRows(flow.tables[flow.i], 1, Place(flow), flow.i)
       IN  flow' = [flow EXCEPT
               !.pages = st.pages, !.drawn = st.drawn,
               !.pc = IF flow.i < Len(flow.tables) THEN "docx_table" ELSE "save",
               !.i = @ + 1]
    /\ UNCHANGED notFlVars

\* lines 209-223: one line of the text file, with every line it is wrapped into
TxtLine ==
    /\ flow.pc = "txt_line"
    /\ LET lines == SplitLines(flow.content)
           line_height == LineHeight(DefaultFontSize)
           brk == flow.current_y + line_height > TxtBottom
           at == IF brk
                 THEN [y |-> margin, page |-> flow.pages + 1, pages |-> flow.pages + 1,
                       drawn |-> flow.drawn]
                 ELSE Place(flow)
           st == DrawLines(WrapText(lines[flow.i], text_width, DefaultFontSize), 1, at,
                           line_height, flow.i, FALSE)
       IN  flow' = [flow EXCEPT
               !.line_height = line_height,
               !.current_y = st.y, !.current_page = st.page, !.pages = st.pages,
               !.drawn = st.drawn,
               !.result.pages_converted = @ + (st.pages - flow.pages),
               !.pc = IF flow.i < Len(lines) THEN "txt_line" ELSE "save",
               !.i = @ + 1]
    /\ UNCHANGED notFlVars

\* lines 243-275: one line of the Markdown file
MdLine ==
    /\ flow.pc = "md_line"
    /\ LET lines == SplitLines(flow.content)
           raw == lines[flow.i]
           level == IF StartsWith(raw, <<"#", "#", "#", " ">>) THEN 3
                    ELSE IF StartsWith(raw, <<"#", "#", " ">>) THEN 2
                    ELSE IF StartsWith(raw, <<"#", " ">>) THEN 1
                    ELSE 0
           font_size == IF level = 3 THEN 12 * Mp
                        ELSE IF level = 2 THEN 14 * Mp
                        ELSE IF level = 1 THEN 18 * Mp
                        ELSE DefaultFontSize
           line == IF level = 0 THEN raw ELSE SubSeq(raw, level + 2, Len(raw))
           line_height == LineHeight(font_size)
           brk == flow.current_y + line_height > TxtBottom
           y == IF brk THEN margin ELSE flow.current_y
           page == IF brk THEN flow.pages + 1 ELSE flow.current_page
       IN  flow' = [flow EXCEPT
               !.line_height = line_height,
               !.current_y = y + line_height + (IF level > 0 THEN HeadingGap ELSE 0),
               !.current_page = page,
               !.pages = IF brk THEN @ + 1 ELSE @,
               !.drawn = IF Strip(line) # <<>>
                         THEN Append(@, DrawnLine("line", flow.i, 1, page, y, line_height,
                                                  line))
                         ELSE @,
               !.result.pages_converted = IF brk THEN @ + 1 ELSE @,
               !.pc = IF flow.i < Len(lines) THEN "md_line" ELSE "save",
               !.i = @ + 1]
    /\ UNCHANGED notFlVars

\* the end of a _convert_*_to_pdf method and of convert: the page count, the save, success
PdfSave ==
    /\ flow.pc = "save"
    /\ LET f == [flow EXCEPT !.result.pages_converted = flow.pages]
       IN  IF ~f.out_writable
           THEN flow' = FlowFail(f, "PermissionError", "pdf_doc.save")
           ELSE flow' = [f EXCEPT !.out_file = "written", !.result.success = TRUE,
                                  !.pc = "returned"]
    /\ UNCHANGED notFlVars

NextFlow ==
    \/ PdfConvert
    \/ DocxParagraph
    \/ DocxTable
    \/ TxtLine
    \/ MdLine
    \/ PdfSave

(***************************************************************************)
(* The files given to PdfConverter.convert.                                *)
(***************************************************************************)
MaxTxtLines == 44      \* lines of the longest text file

\* n lines "x", each ended by a newline
ShortLines(n) == [i \in 1..(2 * n) |-> IF i % 2 = 1 THEN "x" ELSE "\n"]

Paragraph(text, style, sizes) == [text |-> text, style |-> style, sizes |-> sizes]

\* a text file of three lines, the second one empty
TxtShort == <<"a", " ", "g", "\n", "\n", "e">>
\* a text file that fills the first page and goes on to a second one
TxtManyLines == ShortLines(MaxTxtLines - 1) \o <<"x">>
\* a text file whose line 42, the last that fits on the first page, is two words of 45
\* characters and so is wrapped into two lines
TxtLongLine == ShortLines(41) \o Rep("x", 45) \o <<" ">> \o Rep("x", 45)

\* a Markdown file with the three heading levels, an empty line and text
MdShort ==
    <<"#", " ", "T", "\n", "#", "#", " ", "g", "\n", "#", "#", "#", " ", "e", "\n", "\n",
      "#", "x", " ", "x">>
\* a Markdown file of headings that goes on to a second page
MdManyHeadings ==
    [i \in 1..(4 * 24) |-> IF i % 4 = 1 THEN "#" ELSE IF i % 4 = 2 THEN " "
                           ELSE IF i % 4 = 3 THEN "T" ELSE "\n"] \o <<"x">>

\* five words of 20 characters: five lines at 40pt (22 characters a line)
FiveWords == JoinWith(<<" ">>, [k \in 1..5 |-> Rep("x", 20)])

\* a DOCX file with every style, an empty paragraph, runs with and without a size, and two
\* tables, one with an empty row
DocxStyled ==
    [content |-> <<Paragraph(<<"T">>, "title", <<None>>),
                   Paragraph(<<"H">>, "heading 1", <<>>),
                   Paragraph(<<" ">>, "normal", <<None>>),
                   Paragraph(<<"H">>, "heading 2", <<None>>),
                   Paragraph(<<"H">>, "heading 3", <<None>>),
                   Paragraph(<<"T">>, "subtitle", <<None>>),
                   Paragraph(<<" ">> \o FiveWords, "normal", <<Some(40 * Mp), None>>),
                   Paragraph(<<"x", " ", "x">>, "normal", <<None, None>>)>>,
     tables |-> <<<<<<<<"a">>, <<" ", "g">>>>, <<<<>>, <<" ">>>>>>,
                  <<<<<<"e">>>>>>>>]
\* a DOCX file of paragraphs at 40pt that goes on to a second page, and a table that
\* starts below y = 750
DocxLong ==
    [content |-> [k \in 1..3 |-> Paragraph(FiveWords, "normal", <<Some(40 * Mp)>>)],
     tables |-> <<<<<<<<"a">>>>, <<<<"g">>>>>>>>]
\* a DOCX file of one paragraph at 480pt, whose line height is more than a page holds
DocxHuge ==
    [content |-> <<Paragraph(<<"x", " ", "x">>, "normal", <<Some(480 * Mp)>>)>>,
     tables |-> <<>>]
\* a DOCX file without paragraphs and tables
DocxEmpty == [content |-> <<>>, tables |-> <<>>]

FlowInputs ==
    {[ext |-> ".txt", content |-> c, tables |-> <<>>] : c \in {TxtShort, TxtManyLines, TxtLongLine}}
    \cup {[ext |-> ".md", content |-> c, tables |-> <<>>] : c \in {MdShort, MdManyHeadings}}
    \cup {[ext |-> ".docx", content |-> d.content, tables |-> d.tables] :
             d \in {DocxStyled, DocxLong, DocxHuge, DocxEmpty}}
    \cup {[ext |-> ".pdf", content |-> <<>>, tables |-> <<>>]}

InitFlow ==
    /\ AnalyzerIdle
    /\ ConverterIdle
    /\ WorkersIdle
    /\ GuiIdle
    /\ UnitIdle
    /\ \E inp \in FlowInputs, exists \in BOOLEAN, readable \in BOOLEAN, writable \in BOOLEAN :
          flow = [NoFlow EXCEPT !.pc = "convert", !.ext = inp.ext, !.exists = exists,
                                !.readable = readable, !.out_writable = writable,
                                !.content = IF exists /\ readable THEN inp.content ELSE <<>>,
                                !.tables = IF exists /\ readable THEN inp.tables ELSE <<>>]

SpecFlow == InitFlow /\ [][NextFlow]_vars

\* C18, as claimed: every text line drawn by the DOCX, TXT or Markdown layout, wrapped
\* continuation lines included, is drawn at a y with y + line_height <= 842 - 72.
C18_AsClaimed ==
    \A d \in DOMAIN flow.drawn :
        flow.drawn[d].kind = "line" =>
            flow.drawn[d].y + flow.drawn[d].line_height <= page_height - margin

(***************************************************************************)
(* Conversions on worker threads and the OCR engine of the module          *)
(* ocr_engine.  A thread can be switched between any two bytecodes of      *)
(* _get_ocr: the test of the global, the construction of the engine, the   *)
(* store into the global and the load for the return are steps of their    *)
(* own.                                                                    *)
(***************************************************************************)
MaxWorkers == 2        \* conversions running at the same time
MaxWorkerPages == 2    \* pages a conversion hands to ocr_page

\* a conversion about to hand its pages to ocr_page; pages[k] tells whether is_scanned_page
\* accepts page k
NewWorker(pages) == [pc |-> "ocr_page", pages |-> pages, i |-> 1, new |-> 0, ocr |-> 0,
                     used |-> <<>>]

InitThreads ==
    /\ AnalyzerIdle
    /\ ConverterIdle
    /\ PdfConverterIdle
    /\ UnitIdle
    /\ GuiIdle
    /\ ocr_engine = 0
    /\ constructed = 0
    /\ accesses = NoAccesses
    /\ \E n \in 1..MaxWorkers :
          \E ps \in [1..n -> SeqsUpTo(BOOLEAN, MaxWorkerPages) \ {<<>>}] :
              workers = [w \in 1..n |-> NewWorker(ps[w])]

\* the conversion of worker w is over
Finish(w) == [workers EXCEPT ![w].pc = "done"]

\* ocr_page, lines 56-59: a page that is not scanned returns at once
OcrPageCall(w) ==
    /\ workers[w].pc = "ocr_page"
    /\ workers' = IF workers[w].i > Len(workers[w].pages) THEN Finish(w)
                  ELSE IF ~workers[w].pages[workers[w].i]
                  THEN [workers EXCEPT ![w].i = @ + 1]
                  ELSE [workers EXCEPT ![w].pc = "get_ocr"]
    /\ UNCHANGED <<ocr_engine, constructed, accesses>>
    /\ UNCHANGED notThVars

\* _get_ocr, line 33: if _ocr_engine is None
GetOcrTest(w) ==
    /\ workers[w].pc = "get_ocr"
    /\ workers' = [workers EXCEPT ![w].pc = IF ocr_engine = 0 THEN "construct" ELSE "return"]
    /\ accesses' = [accesses EXCEPT !.reads = @ \cup {w}]
    /\ UNCHANGED <<ocr_engine, constructed>>
    /\ UNCHANGED notThVars

\* _get_ocr, lines 34-35: the import and the call RapidOCR()
GetOcrConstruct(w) ==
    /\ workers[w].pc = "construct"
    /\ constructed' = constructed + 1
    /\ workers' = [workers EXCEPT ![w].pc = "assign", ![w].new = constructed + 1]
    /\ UNCHANGED <<ocr_engine, accesses>>
    /\ UNCHANGED notThVars

\* _get_ocr, line 35: the store into the global
GetOcrAssign(w) ==
    /\ workers[w].pc = "assign"
    /\ ocr_engine' = workers[w].new
    /\ workers' = [workers EXCEPT ![w].pc = "return"]
    /\ accesses' = [accesses EXCEPT !.writes = @ \cup {w}]
    /\ UNCHANGED constructed
    /\ UNCHANGED notThVars

\* _get_ocr, line 36: return _ocr_engine, the global read again
GetOcrReturn(w) ==
    /\ workers[w].pc = "return"
    /\ workers' = [workers EXCEPT ![w].pc = "run", ![w].ocr = ocr_engine]
    /\ accesses' = [accesses EXCEPT !.reads = @ \cup {w}]
    /\ UNCHANGED <<ocr_engine, constructed>>
    /\ UNCHANGED notThVars

\* ocr_page, lines 66-95: the engine is run on the image of the page
OcrRun(w) ==
    /\ workers[w].pc = "run"
    /\ workers' = [workers EXCEPT ![w].pc = "ocr_page", ![w].i = @ + 1,
                                  ![w].used = Append(@, workers[w].ocr)]
    /\ UNCHANGED <<ocr_engine, constructed, accesses>>
    /\ UNCHANGED notThVars

NextThreads ==
    \/ \E w \in DOMAIN workers : OcrPageCall(w)
    \/ \E w \in DOMAIN workers : GetOcrTest(w)
    \/ \E w \in DOMAIN workers : GetOcrConstruct(w)
    \/ \E w \in DOMAIN workers : GetOcrAssign(w)
    \/ \E w \in DOMAIN workers : GetOcrReturn(w)
    \/ \E w \in DOMAIN workers : OcrRun(w)

SpecThreads == InitThreads /\ [][NextThreads]_vars

\* C20, as claimed: no variable is written by one conversion and read or written by
\* another, and the OCR engine is constructed at most once.
C20_AsClaimed ==
    /\ \A w \in accesses.writes : (accesses.reads \cup accesses.writes) \subseteq {w}
    /\ constructed <= 1

(***************************************************************************)
(* _blocks_to_text on pages whose spans lie at, above and below the top    *)
(* edge of the page.                                                       *)
(***************************************************************************)
MaxLineSpans == 3      \* spans on a page whose lines are explored

\* spans 4 points high at y0 = -3, 0, 1, 3 (header band of a page 100 points high) and 40
\* (body), at two x0 and with two font sizes
EdgeSpans == {[text |-> <<"a">>, x0 |-> x, y0 |-> y, y1 |-> y + 4, size |-> sz] :
                 x \in {10, 20}, y \in {-3, 0, 1, 3, 40}, sz \in {4, 8}}
EdgeDocs == {<<[height |-> 100, spans |-> sp]>> : sp \in SeqsUpTo(EdgeSpans, MaxLineSpans)}

InitLines ==
    /\ analyzer = [header_margin_ratio |-> 10, footer_margin_ratio |-> 10]
    /\ doc \in EdgeDocs
    /\ range = <<0, None>>
    /\ page_analysis = <<>>
    /\ runs = <<>>
    /\ ConverterIdle
    /\ PdfConverterIdle
    /\ WorkersIdle
    /\ GuiIdle
    /\ UnitIdle

SpecLines == InitLines /\ [][NextRegion]_vars

\* for blocks s in reading order, the index of the first block of the line of each block:
\* a block is on the line of the block before it exactly when its y0 differs from the y0 of
\* that line by less than half its font size
LineStartOf(s) ==
    LET f[i \in 1..Len(s)] ==
            IF i = 1 THEN 1
            ELSE IF 2 * Abs(s[i].y0 - s[f[i - 1]].y0) < s[i].font_size THEN f[i - 1]
            ELSE i
    IN  f

\* the text of the blocks with the lines of LineStartOf
TextByLines(blocks) ==
    LET s == SortBlocks(blocks)
        f == LineStartOf(s)
        starts == {i \in DOMAIN s : f[i] = i}
        members(j) == {i \in DOMAIN s : f[i] = j}
        line(j) == Join(" ", [k \in 1..Cardinality(members(j)) |-> s[NthOf(members(j), k)].text])
    IN  Join("\n", [k \in 1..Cardinality(starts) |-> line(NthOf(starts, k))])

\* C21, as claimed: the text of each region of an analysed page is its blocks in reading
\* order, a block on the line of the blocks before it exactly when its y0 differs from the
\* y0 of that line by less than half its font size, whatever the y0.
C21_AsClaimed ==
    \A k \in DOMAIN page_analysis :
        /\ page_analysis[k].header_text = TextByLines(page_analysis[k].header_blocks)
        /\ page_analysis[k].body_text = TextByLines(page_analysis[k].body_blocks)
        /\ page_analysis[k].footer_text = TextByLines(page_analysis[k].footer_blocks)

(***************************************************************************)
(* _group_ocr_lines called on lists of OCR lines.                          *)
(***************************************************************************)
MaxOcrLines == 3       \* OCR lines of a list given to _group_ocr_lines

\* (y0, y1) of an OCR line: lines that overlap, lines at a gap of exactly 1.5 times the
\* average height (0..4 and 10..14), below it and above it
OcrYs == {<<0, 4>>, <<2, 6>>, <<10, 14>>, <<10, 18>>, <<20, 24>>, <<40, 44>>}
OcrLineChoices == {[text |-> <<"a">>, x0 |-> x, y0 |-> y[1], y1 |-> y[2]] :
                      x \in {10, 20}, y \in OcrYs}
\* the lines of a list, each with its place in the list
OcrLineLists ==
    {[k \in DOMAIN c |-> [line |-> k, text |-> c[k].text, x0 |-> c[k].x0,
                          y0 |-> c[k].y0, y1 |-> c[k].y1]] :
        c \in SeqsUpTo(OcrLineChoices, MaxOcrLines)}

InitGroups ==
    /\ AnalyzerIdle
    /\ ConverterIdle
    /\ PdfConverterIdle
    /\ WorkersIdle
    /\ GuiIdle
    /\ \E lines \in OcrLineLists :
          unit = [NoUnit EXCEPT !.fn = "_group_ocr_lines", !.args = lines]

GroupOcrLinesCall ==
    /\ unit.fn = "_group_ocr_lines"
    /\ ~unit.returned
    /\ unit' = [unit EXCEPT !.returned = TRUE, !.ret = GroupOcrLines(unit.args)]
    /\ UNCHANGED notUnVars

NextGroups == GroupOcrLinesCall

SpecGroups == InitGroups /\ [][NextGroups]_vars

\* the groups one after the other, and the index of the group of each line of that list
Flat(groups) == Concat(groups)
GroupOf(groups, i) ==
    CHOOSE g \in DOMAIN groups :
        /\ Len(Concat(SubSeq(groups, 1, g - 1))) < i
        /\ i <= Len(Concat(SubSeq(groups, 1, g)))

\* top to bottom, then left to right
InReadingOrder(s) ==
    \A i \in 1..(Len(s) - 1) :
        s[i].y0 < s[i + 1].y0 \/ (s[i].y0 = s[i + 1].y0 /\ s[i].x0 <= s[i + 1].x0)

GroupsReturned == unit.fn = "_group_ocr_lines" /\ unit.returned

\* C22: the lines of the groups _group_ocr_lines returns are in top-to-bottom, left-to-right
\* order, and a line starts a new group exactly when the gap between the bottom of the line
\* before it and its top is more than 1.5 times the average of the two heights.
C22_NewGroupIffGap ==
    GroupsReturned =>
        LET s == Flat(unit.ret)
        IN  /\ InReadingOrder(s)
            /\ \A i \in 2..Len(s) :
                  (GroupOf(unit.ret, i) # GroupOf(unit.ret, i - 1))
                      <=> (4 * (s[i].y0 - s[i - 1].y1)
                              > 3 * ((s[i - 1].y1 - s[i - 1].y0) + (s[i].y1 - s[i].y0)))

\* three lines given bottom first: the first two at a gap of exactly 1.5 times the average
\* height stay together, the third, further down, is a group of its own
C22_Witness ==
    /\ GroupsReturned
    /\ Len(unit.args) = 3
    /\ unit.args[1].y0 = 40 /\ unit.args[2].y0 = 0 /\ unit.args[3].y0 = 10
    /\ unit.args[3].y1 = 14
    /\ Len(unit.ret) = 2
    /\ Len(unit.ret[1]) = 2

\* C25: the groups partition the lines given: every line is in exactly one group, at one
\* place; no group is empty; the groups one after the other are the lines in (top, left)
\* order; no line gives no group.
C25_GroupsPartitionLines ==
    GroupsReturned =>
        LET s == Flat(unit.ret)
        IN  /\ \A k \in DOMAIN unit.args :
                  Cardinality({i \in DOMAIN s : s[i] = unit.args[k]}) = 1
            /\ Len(s) = Len(unit.args)
            /\ \A g \in DOMAIN unit.ret : unit.ret[g] # <<>>
            /\ InReadingOrder(s)
            /\ unit.args = <<>> => unit.ret = <<>>

\* three lines given out of order come back in three groups
C25_Witness ==
    /\ GroupsReturned
    /\ Len(unit.args) = 3
    /\ ~InReadingOrder(unit.args)
    /\ Len(unit.ret) = 3

(***************************************************************************)
(* Conversions of documents whose pages have different shapes.             *)
(***************************************************************************)
\* the page turned on its side, and the page cut to a square
Landscape(page) == [page EXCEPT !.width = 842, !.height = 595]
Square(page) == [page EXCEPT !.width = 595, !.height = 595]

ShapedKinds ==
    UNION {{p, Landscape(p), Square(p)} : p \in {ShortTextPage, ScannedSilentPage}}
ShapedDocs == SeqsUpTo(ShapedKinds, MaxContentPages) \ {<<>>}

InitSections ==
    /\ AnalyzerIdle
    /\ \E rg \in ContentRanges :
          options = [DefaultOptions EXCEPT !.start_page = rg[1], !.end_page = rg[2]]
    /\ fs = [pdf_exists |-> TRUE, pdf_valid |-> TRUE, out_dir |-> "present",
             out_writable |-> TRUE, out_file |-> "absent"]
    /\ pdf \in ShapedDocs
    /\ pc = "convert"
    /\ frame = NoFrame
    /\ result = NoResult
    /\ raised = NoException
    /\ handles = <<>>
    /\ handed = <<>>
    /\ emitted = <<>>
    /\ word_doc = NoWordDoc
    /\ PdfConverterIdle
    /\ WorkersIdle
    /\ GuiIdle
    /\ UnitIdle

SpecSections == InitSections /\ [][NextConvert]_vars

\* the sections set up from a page of the PDF
PageSections == {k \in DOMAIN word_doc.sections : word_doc.sections[k].page >= 0}

\* the section of each page is landscape exactly when the page is wider than tall; the
\* first page of the range has the document's initial section, every later one its own
SectionPerPage ==
    /\ \A k \in PageSections :
          word_doc.sections[k].orientation = "landscape"
              <=> pdf[word_doc.sections[k].page + 1].width
                      > pdf[word_doc.sections[k].page + 1].height
    /\ word_doc.sections # <<>> =>
          /\ Len(word_doc.sections) = IF emitted = <<>> THEN 1 ELSE Len(emitted)
          /\ \A k \in DOMAIN emitted : word_doc.sections[k].page = emitted[k].page

\* C23, as claimed: the section of each page of a scanned or mixed conversion is landscape,
\* with a page width greater than its page height, exactly when the source page is wider
\* than tall, and portrait with width <= height otherwise; the first page of the range has
\* the initial section and every later page a new one.
C23_AsClaimed ==
    /\ SectionPerPage
    /\ \A k \in PageSections :
          word_doc.sections[k].page_width > word_doc.sections[k].page_height
              <=> pdf[word_doc.sections[k].page + 1].width
                      > pdf[word_doc.sections[k].page + 1].height

(***************************************************************************)
(* extract_clean_text (utils/pdf_analyzer.py).                             *)
(***************************************************************************)
\* variant: the header and the footer are left out whenever the flag is set
PageCleanTextByFlag(page, analysis, remove_headers, remove_footers) ==
    Strip((IF remove_headers \/ page.header_text = <<>> THEN page.body_text
           ELSE page.header_text \o <<"\n">> \o page.body_text)
          \o (IF ~remove_footers /\ page.footer_text # <<>>
              THEN <<"\n">> \o page.footer_text ELSE <<>>))

\* the body of the loop over analysis.pages: the text of one page
PageCleanText(page, analysis, remove_headers, remove_footers) ==
    LET with_header ==
            IF remove_headers /\ analysis.common_header # <<>> THEN page.body_text
            ELSE IF page.header_text # <<>>
                 THEN page.header_text \o <<"\n">> \o page.body_text
                 ELSE page.body_text
        with_footer ==
            IF ~remove_footers \/ analysis.common_footer = <<>>
            THEN (IF page.footer_text # <<>>
                  THEN with_header \o <<"\n">> \o page.footer_text
                  ELSE with_header)
            ELSE with_header
    IN  Strip(with_footer)

PageSeparator == <<"\n", "\n", "-", "-", "-", "\n", "\n">>

\* extract_clean_text on an analysis: the texts of the pages and their join
ExtractCleanText(analysis, remove_headers, remove_footers) ==
    LET texts == [k \in DOMAIN analysis.pages |->
                     PageCleanText(analysis.pages[k], analysis, remove_headers,
                                   remove_footers)]
    IN  [analysis |-> analysis, texts |-> texts, text |-> JoinWith(PageSeparator, texts)]

InitClean ==
    /\ analyzer = [header_margin_ratio |-> 10, footer_margin_ratio |-> 10]
    /\ doc \in TextDocs
    /\ range \in RangeChoices
    /\ page_analysis = <<>>
    /\ runs = <<>>
    /\ ConverterIdle
    /\ PdfConverterIdle
    /\ WorkersIdle
    /\ GuiIdle
    /\ \E rh \in BOOLEAN, rf \in BOOLEAN :
          unit = [NoUnit EXCEPT !.fn = "extract_clean_text",
                                !.args = [remove_headers |-> rh, remove_footers |-> rf]]

ExtractCleanTextCall ==
    /\ unit.fn = "extract_clean_text"
    /\ ~unit.returned
    /\ \E a \in AnalyzeDocument(analyzer, doc, range[1], range[2]) :
          unit' = [unit EXCEPT !.returned = TRUE,
                               !.ret = ExtractCleanText(a, unit.args.remove_headers,
                                                        unit.args.remove_footers)]
    /\ UNCHANGED notUnVars

NextClean == ExtractCleanTextCall

SpecClean == InitClean /\ [][NextClean]_vars

EndsWith(t, suffix) ==
    Len(t) >= Len(suffix) /\ SubSeq(t, Len(t) - Len(suffix) + 1, Len(t)) = suffix

CleanReturned == unit.fn = "extract_clean_text" /\ unit.returned

\* C24: the text extract_clean_text returns is the texts of the analysed pages in page
\* order; the text of a page holds its body text; a header text is left out exactly when
\* remove_headers is set and a common header was detected and stands before the body
\* otherwise, a footer text is left out exactly when remove_footers is set and a common footer
\* was detected and stands after the body otherwise.
C24_CleanTextKeepsBody ==
    CleanReturned =>
        LET a == unit.ret.analysis
            texts == unit.ret.texts
            drop_h == unit.args.remove_headers /\ a.common_header # <<>>
            drop_f == unit.args.remove_footers /\ a.common_footer # <<>>
        IN  /\ Len(texts) = Len(AnalyzedPageNums(doc, range[1], range[2]))
            /\ unit.ret.text = JoinWith(PageSeparator, texts)
            /\ \A k \in DOMAIN texts :
                  LET p == a.pages[k]
                  IN  /\ p.page_num = AnalyzedPageNums(doc, range[1], range[2])[k]
                      /\ p.body_text # <<>>
                      /\ IF p.header_text = <<>> \/ drop_h
                         THEN StartsWith(texts[k], p.body_text)
                         ELSE StartsWith(texts[k], p.header_text \o <<"\n">> \o p.body_text)
                      /\ IF p.footer_text = <<>> \/ drop_f
                         THEN EndsWith(texts[k], p.body_text)
                         ELSE EndsWith(texts[k], p.body_text \o <<"\n">> \o p.footer_text)

\* a call with both flags set on a document in which a common header was detected and no
\* common footer: the headers go, the footers stay
C24_Witness ==
    /\ CleanReturned
    /\ unit.args.remove_headers /\ unit.args.remove_footers
    /\ unit.ret.analysis.common_header # <<>>
    /\ unit.ret.analysis.common_footer = <<>>
    /\ \E k \in DOMAIN unit.ret.texts :
          /\ unit.ret.analysis.pages[k].header_text # <<>>
          /\ unit.ret.analysis.pages[k].footer_text # <<>>
          /\ StartsWith(unit.ret.texts[k], unit.ret.analysis.pages[k].body_text)
          /\ EndsWith(unit.ret.texts[k], unit.ret.analysis.pages[k].footer_text)

(***************************************************************************)
(* _wrap_text called on short texts.                                       *)
(***************************************************************************)
MaxWrapChars == 6      \* characters of a text given to _wrap_text

WrapTexts == SeqsUpTo({"a", " ", "\n"}, MaxWrapChars)
\* (max_width, font_size) in thousandths of a point: chars_per_line is -1, 0, 2, 3 and 4 at
\* 1pt and 0 (from -0.5), 0, 1, 1 (from 1.5) and 2 at 2pt
WrapWidths == {0 - 500, 0, 1000, 1500, 2000}
WrapFontSizes == {1000, 2000}

InitWrap ==
    /\ AnalyzerIdle
    /\ ConverterIdle
    /\ PdfConverterIdle
    /\ WorkersIdle
    /\ GuiIdle
    /\ \E t \in WrapTexts, w \in WrapWidths, f \in WrapFontSizes :
          unit = [NoUnit EXCEPT !.fn = "_wrap_text",
                                !.args = [text |-> t, max_width |-> w, font_size |-> f]]

WrapTextCall ==
    /\ unit.fn = "_wrap_text"
    /\ ~unit.returned
    /\ unit' = [unit EXCEPT !.returned = TRUE,
                            !.ret = WrapText(unit.args.text, unit.args.max_width,
                                             unit.args.font_size)]
    /\ UNCHANGED notUnVars

NextWrap == WrapTextCall

SpecWrap == InitWrap /\ [][NextWrap]_vars

WrapReturned == unit.fn = "_wrap_text" /\ unit.returned

\* C26: the lines _wrap_text returns, joined with spaces and split on whitespace, are the
\* words of the text in their order; there is at least one line; a line of more than one
\* word has at most int(max_width / (font_size * 0.5)) characters.
C26_WrapKeepsWords ==
    WrapReturned =>
        /\ SplitWords(Join(" ", unit.ret)) = SplitWords(unit.args.text)
        /\ unit.ret # <<>>
        /\ \A k \in DOMAIN unit.ret :
              Len(SplitWords(unit.ret[k])) > 1 =>
                  Len(unit.ret[k]) <= CharsPerLine(unit.args.max_width, unit.args.font_size)

\* three words at 3 characters a line: the first alone, the other two on a line of exactly
\* 3 characters
C26_Witness ==
    /\ WrapReturned
    /\ unit.args.text = <<"a", " ", "a", "\n", "a">>
    /\ CharsPerLine(unit.args.max_width, unit.args.font_size) = 3
    /\ unit.ret = <<<<"a">>, <<"a", " ", "a">>>>

(***************************************************************************)
(* Document handles.                                                       *)
(***************************************************************************)
\* C27: a document handle that was opened is closed exactly once: close() is never called
\* on a handle that is closed already, and when convert has returned or raised no handle
\* is left open.
C27_AsClaimed ==
    /\ \A h \in DOMAIN handles : handles[h].closes <= 1
    /\ pc \in {"returned", "raised"} => \A h \in DOMAIN handles : handles[h].closes = 1

\* what is left of it: every handle but the one of _convert_mixed is closed exactly once,
\* and that one is closed once or twice
ClosedOnceButMixed ==
    /\ \A h \in DOMAIN handles :
          handles[h].closes <= (IF handles[h].owner = "_convert_mixed" THEN 2 ELSE 1)
    /\ pc \in {"returned", "raised"} => \A h \in DOMAIN handles : handles[h].closes >= 1

(***************************************************************************)
(* The conversion history: load_history, save_history, add_entry and       *)
(* clear_history of gui/history_store.py, called one after the other.      *)
(***************************************************************************)
MAX_ENTRIES == 200     \* _MAX_ENTRIES
MaxAdds == 202         \* add_entry calls made on one history file

\* lines 28-34: the list in the file; [] when there is no file or it does not parse
LoadHistory(file) == IF file.state = "list" THEN file.entries ELSE <<>>

\* variant: everything is written
SaveHistoryUntrimmed(entries) == [state |-> "list", entries |-> entries]

\* lines 37-40: the first _MAX_ENTRIES entries are written
SaveHistory(entries) ==
    [state |-> "list",
     entries |-> SubSeq(entries, 1, IF Len(entries) < MAX_ENTRIES THEN Len(entries)
                                    ELSE MAX_ENTRIES)]

\* lines 52-64: the entry; id stands for the uuid4, the other fields are stored as given
Entry(id, status) == [id |-> id, status |-> status]

\* lines 65-67
AddEntry(file, entry) == SaveHistory(<<entry>> \o LoadHistory(file))

\* line 72
ClearHistory == SaveHistory(<<>>)

\* a history file left by earlier sessions: _MAX_ENTRIES entries, the newest first
FullHistory == [state |-> "list",
                entries |-> [k \in 1..MAX_ENTRIES |-> Entry(1 - k, "success")]]

InitHistory ==
    /\ AnalyzerIdle
    /\ ConverterIdle
    /\ PdfConverterIdle
    /\ WorkersIdle
    /\ UnitIdle
    /\ gui = NoGui
    /\ calls = NoCalls
    /\ history_file \in {NoHistoryFile, [state |-> "unparseable", entries |-> <<>>],
                         FullHistory}

\* add_entry, with the next unused id
AddEntryCall ==
    /\ calls.n < MaxAdds
    /\ history_file' = AddEntry(history_file, Entry(calls.n + 1, "success"))
    /\ calls' = [calls EXCEPT !.n = @ + 1, !.added = Append(@, calls.n + 1),
                              !.last = "add_entry"]
    /\ UNCHANGED <<gui, notGuVars>>

ClearHistoryCall ==
    /\ history_file' = ClearHistory
    /\ calls' = [calls EXCEPT !.added = <<>>, !.last = "clear_history", !.cleared = TRUE]
    /\ UNCHANGED <<gui, notGuVars>>

NextHistory ==
    \/ AddEntryCall
    \/ ClearHistoryCall

SpecHistory == InitHistory /\ [][NextHistory]_vars

\* C30: after add_entry and clear_history calls the file holds a list of at most
\* _MAX_ENTRIES entries, newest first: the entry of the last add_entry is the first, the
\* k-th newest add_entry since the last clear_history is the k-th entry for every k up to
\* _MAX_ENTRIES, and after clear_history the list is empty.
C30_HistoryNewestFirstCapped ==
    calls.last # "" =>
        /\ history_file.state = "list"
        /\ Len(history_file.entries) <= MAX_ENTRIES
        /\ calls.last = "add_entry" => history_file.entries[1].id = calls.n
        /\ \A k \in 1..Len(calls.added) :
              k <= MAX_ENTRIES =>
                  /\ k <= Len(history_file.entries)
                  /\ history_file.entries[k].id = calls.added[Len(calls.added) + 1 - k]
        /\ \A k \in 1..(Len(history_file.entries) - 1) :
              history_file.entries[k].id > history_file.entries[k + 1].id
        /\ calls.last = "clear_history" => history_file.entries = <<>>

\* after a clear_history, one add_entry more than the file holds: the oldest is gone and the
\* second oldest is the last entry
C30_Witness ==
    /\ calls.cleared
    /\ calls.last = "add_entry"
    /\ Len(calls.added) = MAX_ENTRIES + 1
    /\ Len(history_file.entries) = MAX_ENTRIES
    /\ history_file.entries[MAX_ENTRIES].id = calls.added[2]

(***************************************************************************)
(* The conversion of the GUI: the convert button on the UI thread, the     *)
(* thread _start_conversion starts, and the callbacks that thread hands to *)
(* the UI thread with after(0, ...).  The progress widget is not modelled: *)
(* of the callbacks only the last two of a conversion are kept.            *)
(***************************************************************************)
MaxClicks == 3         \* clicks on the convert button

InitGui ==
    /\ AnalyzerIdle
    /\ ConverterIdle
    /\ PdfConverterIdle
    /\ WorkersIdle
    /\ UnitIdle
    /\ \E selected \in BOOLEAN : gui = [NoGui EXCEPT !.selected_file = selected]
    /\ history_file \in {NoHistoryFile, [state |-> "unparseable", entries |-> <<>>]}
    /\ calls = NoCalls

\* lines 1029-1047: a click on the convert button.  Without a file, or while is_converting
\* is set, nothing happens; else the flag is set and the thread is started
StartConversion ==
    /\ gui.clicks < MaxClicks
    /\ IF ~gui.selected_file \/ gui.is_converting
       THEN gui' = [gui EXCEPT !.clicks = @ + 1]
       ELSE gui' = [gui EXCEPT !.clicks = @ + 1,
                               !.is_converting = TRUE,
                               !.threads = Append(@, [pc |-> "convert", status |-> "",
                                                      entries |-> <<>>])]
    /\ UNCHANGED <<history_file, calls, notGuVars>>

\* lines 1049-1131 or 1145-1152: the thread converts; convert returns or something raises,
\* and the thread queues the message and _conversion_finished for the UI thread
RunConversion(w) ==
    /\ w \in DOMAIN gui.threads
    /\ gui.threads[w].pc = "convert"
    /\ \E status \in {"success", "error"} :
          gui' = [gui EXCEPT
                    !.threads[w].pc = "load_history",
                    !.threads[w].status = status,
                    !.after = @ \o <<[fn |-> IF status = "success" THEN "show_success"
                                             ELSE "show_error", thread |-> w],
                                     [fn |-> "_conversion_finished", thread |-> w]>>]
    /\ UNCHANGED <<history_file, calls, notGuVars>>

\* lines 1133-1143 or 1154-1164, line 65 of history_store.py: add_entry reads the file
AddEntryLoad(w) ==
    /\ w \in DOMAIN gui.threads
    /\ gui.threads[w].pc = "load_history"
    /\ gui' = [gui EXCEPT !.threads[w].pc = "save_history",
                          !.threads[w].entries = LoadHistory(history_file)]
    /\ UNCHANGED <<history_file, calls, notGuVars>>

\* lines 66-67 of history_store.py: add_entry inserts its entry into the list it read and
\* writes the file; the thread ends
AddEntrySave(w) ==
    /\ w \in DOMAIN gui.threads
    /\ gui.threads[w].pc = "save_history"
    /\ history_file' = SaveHistory(<<Entry(w, gui.threads[w].status)>>
                                     \o gui.threads[w].entries)
    /\ gui' = [gui EXCEPT !.threads[w].pc = "done"]
    /\ UNCHANGED <<calls, notGuVars>>

\* the Tk main loop runs the oldest queued callback; lines 1166-1168 for
\* _conversion_finished
AfterCallback ==
    /\ gui.after # <<>>
    /\ LET cb == Head(gui.after)
       IN  gui' = [gui EXCEPT
                     !.after = Tail(@),
                     !.is_converting = IF cb.fn = "_conversion_finished" THEN FALSE ELSE @,
                     !.finished = IF cb.fn = "_conversion_finished"
                                  THEN Append(@, cb.thread) ELSE @]
    /\ UNCHANGED <<history_file, calls, notGuVars>>

NextGui ==
    \/ StartConversion
    \/ \E w \in DOMAIN gui.threads : RunConversion(w)
    \/ \E w \in DOMAIN gui.threads : AddEntryLoad(w)
    \/ \E w \in DOMAIN gui.threads : AddEntrySave(w)
    \/ AfterCallback

SpecGui == InitGui /\ [][NextGui]_vars

\* the main loop keeps running queued callbacks and every started thread keeps running
SpecGuiLive ==
    /\ SpecGui
    /\ WF_vars(AfterCallback)
    /\ \A w \in 1..MaxClicks :
          WF_vars(RunConversion(w)) /\ WF_vars(AddEntryLoad(w)) /\ WF_vars(AddEntrySave(w))

Running == {w \in DOMAIN gui.threads : gui.threads[w].pc # "done"}
TimesFinished(w) == Cardinality({k \in DOMAIN gui.finished : gui.finished[k] = w})
EntriesOf(w) == SelectSeq(history_file.entries, LAMBDA e : e.id = w)

\* C28: at most one conversion thread that has not finished all of its work, its history
\* entry included, exists at any time.
C28_AsClaimed == Cardinality(Running) <= 1

\* what holds of it: at most one thread is converting, and while one is the flag is set
OneConverting ==
    LET converting == {w \in DOMAIN gui.threads : gui.threads[w].pc = "convert"}
    IN  /\ Cardinality(converting) <= 1
        /\ converting # {} => gui.is_converting

\* C29: of every conversion started, _conversion_finished runs at most once, and once its
\* thread has ended the history holds exactly one entry of it, success if convert returned
\* and error if not.
C29_AsClaimed ==
    \A w \in DOMAIN gui.threads :
        /\ TimesFinished(w) <= 1
        /\ gui.threads[w].pc = "done" =>
              EntriesOf(w) = <<Entry(w, gui.threads[w].status)>>

\* the part of it that is about time: every thread started ends, its _conversion_finished
\* runs, and is_converting is reset then
FinishesOnce ==
    \A w \in 1..MaxClicks :
        [](w \in DOMAIN gui.threads =>
              <>(/\ w \in DOMAIN gui.threads
                 /\ gui.threads[w].pc = "done"
                 /\ TimesFinished(w) = 1))

FinishedResetsFlag ==
    [][(gui'.finished # gui.finished) => ~gui'.is_converting]_vars

====
